---- MODULE Spec2Model ----
(***************************************************************************)
(* Verification model of the sus-compiler middle end.                      *)
(*                                                                         *)
(* Three subsystems are modelled, each with a specification of its own:    *)
(*   SpecLatency : instantiation/latency_count.rs (make_fanins,            *)
(*                 compute_latencies and its error reporting)              *)
(*   SpecLinker  : linker/mod.rs (global namespace, add/remove of files,   *)
(*                 duplicate declaration errors)                           *)
(*   SpecFlatten : flattening/mod.rs and flattening.rs (the instruction    *)
(*                 list produced by flatten_code)                          *)
(* The variables of the subsystems a specification does not exercise stay  *)
(* at their idle values.                                                   *)
(***************************************************************************)
EXTENDS Integers, Sequences, FiniteSets, TLC

VARIABLES
    \* ---- latency counting (InstantiationContext) ----
    wires,            \* FlatAlloc<RealWire, WireIDMarker>
    submodules,       \* FlatAlloc<SubModule, SubModuleIDMarker>
    interface_ports,  \* FlatAlloc<Option<InstantiatedPort>, PortIDMarker>
    md_instructions,  \* the Write instructions of self.md.instructions
    errors,           \* self.errors, in report order
    solve_result,     \* what solve_latencies returned (<<>> before the call)
    lat_pc,           \* "instantiated" | "latency_counted"
    program_text,     \* what gen_verilog_code wrote, and how it ended
    \* ---- linker (Linker) ----
    files,            \* ArenaAllocator<FileData, FileUUIDMarker>
    modules,          \* ArenaAllocator<Module, ModuleUUIDMarker>
    global_namespace, \* HashMap<String, NamespaceElement>
    link_last,        \* the last linker operation, its file and what it returned
    ns_checkpoint,    \* the namespace before the adds to a file that was empty
    \* ---- flattening (FlattenedModule::flatten / ::initialize) ----
    fl_module,        \* the Module being flattened and the module it may instantiate
    instructions,     \* FlatAlloc<Instruction, FlatIDMarker>
    fl_errors,        \* the ErrorCollector of the flattened module
    fl_interface_ports, \* InterfacePorts<FlatID> of the flattened module
    fl_pc,            \* "parsed" | "flattened" | "panicked" or the message of the panic
    \* ---- type inference (TypeSubstitutor) ----
    hm_family,        \* MyType: "AbstractType" | "DomainType" | "ConcreteType"
    substitution_map, \* BlockVec<OnceCell<MyType>>: <<>> is an unset cell
    failed_unifications, \* RefCell<Vec<FailedUnification<MyType>>>
    hm_last,          \* the last call on the substitutor, its arguments and its result
    hm_pc,            \* "running", or how the process ended
    \* ---- name mangling (codegen_fallback::mangle) ----
    mangle_str,       \* the &str given to mangle, a sequence of chars
    mangle_result,    \* the String it returned
    mangle_pc,        \* "called" | "returned" | "mangled again"
    \* ---- symbol references (dev_aid::lsp::tree_walk::RefersTo) ----
    rt_linker,        \* the ports of the modules the LocationInfos point into
    rt_info,          \* the LocationInfo a RefersTo is made from
    rt_refers,        \* RefersTo::from(rt_info), <<>> before the call
    rt_other,         \* the LocationInfo given to refers_to_same_as
    rt_result         \* what refers_to_same_as returned, <<>> before the call

latVars == <<wires, submodules, interface_ports, md_instructions, errors,
             solve_result, lat_pc, program_text>>

linkVars == <<files, modules, global_namespace, link_last, ns_checkpoint>>

flatVars == <<fl_module, instructions, fl_errors, fl_interface_ports, fl_pc>>

hmVars == <<hm_family, substitution_map, failed_unifications, hm_last, hm_pc>>

mgVars == <<mangle_str, mangle_result, mangle_pc>>

rtVars == <<rt_linker, rt_info, rt_refers, rt_other, rt_result>>

vars == <<wires, submodules, interface_ports, md_instructions, errors,
          solve_result, lat_pc, program_text,
          files, modules, global_namespace, link_last, ns_checkpoint,
          fl_module, instructions, fl_errors, fl_interface_ports, fl_pc,
          hm_family, substitution_map, failed_unifications, hm_last, hm_pc,
          mangle_str, mangle_result, mangle_pc,
          rt_linker, rt_info, rt_refers, rt_other, rt_result>>

(***************************************************************************)
(* Bounds of the model                                                     *)
(***************************************************************************)
NumWires == 2        \* wires of the instantiation under latency counting
NumWrites == 2       \* Write instructions the multiplexer sources come from
MaxLatency == 1      \* specified / solved latencies range over 0..MaxLatency
MaxRegs == 1         \* num_regs of a write ranges over 0..MaxRegs
NumFiles == 2        \* files registered with the linker
MaxModules == 3      \* slots of the linker's module arena

\* instantiation::CALCULATE_LATENCY_LATER is i64::MIN: a value below every
\* latency, so that max(CALCULATE_LATENCY_LATER, x) = x.
CALCULATE_LATENCY_LATER == -1000

\* Arena handles are 1-based here (handle k is index k-1 of the source arena).
WireIDs == 1..NumWires
PortIDs == 1..2
\* FlatIDs: the declaration wire w came from is FlatID w, the writes follow.
WriteFlats == (NumWires + 1)..(NumWires + NumWrites)
Latencies == 0..MaxLatency

\* Option<T>: <<>> is None, <<x>> is Some(x).
Option(S) == {<<>>} \cup {<<x>> : x \in S}

Max(a, b) == IF a >= b THEN a ELSE b

RECURSIVE Flatten(_)
Flatten(ss) == IF ss = <<>> THEN <<>> ELSE Head(ss) \o Flatten(Tail(ss))

Range(f) == {f[i] : i \in DOMAIN f}

\* The values of the variables of a subsystem that is not exercised.
LatIdle ==
    /\ wires = <<>> /\ submodules = <<>> /\ interface_ports = <<>>
    /\ md_instructions = <<>> /\ errors = <<>>
    /\ solve_result = [kind |-> "None"] /\ lat_pc = "idle"
    /\ program_text = [use_latency |-> FALSE, lines |-> <<>>, status |-> "none"]

LinkIdle ==
    /\ files = <<>> /\ modules = <<>> /\ global_namespace = <<>>
    /\ link_last = [op |-> "idle"] /\ ns_checkpoint = <<>>

FlatIdle ==
    /\ fl_module = <<>> /\ instructions = <<>> /\ fl_errors = <<>>
    /\ fl_interface_ports = <<>> /\ fl_pc = "idle"

HmIdle ==
    /\ hm_family = "idle" /\ substitution_map = <<>> /\ failed_unifications = <<>>
    /\ hm_last = [op |-> "idle"] /\ hm_pc = "idle"

MgIdle ==
    /\ mangle_str = <<>> /\ mangle_result = <<>> /\ mangle_pc = "idle"

RtIdle ==
    /\ rt_linker = <<>> /\ rt_info = <<>> /\ rt_refers = <<>>
    /\ rt_other = <<>> /\ rt_result = <<>>

(***************************************************************************)
(* Latency counting: instantiation/latency_count.rs                        *)
(***************************************************************************)

\* MultiplexerSource::for_each_source: the wires a multiplexer source reads
\* (its from wire, then the condition; path index wires behave as the
\* condition does).
for_each_source(s) == <<s.from>> \o s.condition

\* RealWireDataSource::iter_sources_with_min_latency: every wire a source
\* reads with the minimum latency difference of that edge (num_regs for a
\* multiplexer source, 0 for an operator).
iter_sources_with_min_latency(source) ==
    CASE source.kind = "Multiplexer" ->
            Flatten([k \in 1..Len(source.sources) |->
                [i \in 1..Len(for_each_source(source.sources[k])) |->
                    [other |-> for_each_source(source.sources[k])[i],
                     delta_latency |-> source.sources[k].num_regs]]])
      [] source.kind = "UnaryOp" ->
            [i \in 1..Len(source.right) |->
                [other |-> source.right[i], delta_latency |-> 0]]
      [] OTHER -> <<>>

\* latency_count.rs:111, the test guarding the sub-module fan-in: it compares
\* other_port_in_submodule.is_input with its own negation.
IsInputOutputPair(port_in_submodule, other_port_in_submodule) ==
    other_port_in_submodule.is_input = ~other_port_in_submodule.is_input

\* latency_count.rs:114-118
SubmoduleDeltaLatency(port_in_submodule, other_port_in_submodule) ==
    LET delta_latency == other_port_in_submodule.absolute_latency
                         - port_in_submodule.absolute_latency
    IN IF port_in_submodule.is_input THEN -delta_latency ELSE delta_latency

\* latency_count.rs:102-126: the fan-in a wire gets from the sub-modules.
SubmoduleFanins(subs, id) ==
    Flatten([m \in 1..Len(subs) |->
      Flatten([port_id \in PortIDs |->
        IF subs[m].port_map[port_id] # id THEN <<>>
        ELSE IF subs[m].instance.interface_ports[port_id] = <<>> THEN <<>>
        ELSE LET port_in_submodule == subs[m].instance.interface_ports[port_id][1] IN
          Flatten([other_port_id \in PortIDs |->
            IF subs[m].instance.interface_ports[other_port_id] = <<>> THEN <<>>
            ELSE LET other_port_in_submodule ==
                        subs[m].instance.interface_ports[other_port_id][1] IN
              IF IsInputOutputPair(port_in_submodule, other_port_in_submodule)
              THEN <<[other |-> subs[m].port_map[other_port_id],
                      delta_latency |-> SubmoduleDeltaLatency(port_in_submodule,
                                                              other_port_in_submodule)]>>
              ELSE <<>>])])])

\* make_fanins, first component: the fan-in list of every wire.
make_fanins(ws, subs) ==
    [id \in WireIDs |->
        iter_sources_with_min_latency(ws[id].source) \o SubmoduleFanins(subs, id)]

\* make_fanins, second component: the specified latencies, in wire order.
initial_latencies(ws) ==
    Flatten([id \in WireIDs |->
        IF ws[id].absolute_latency # CALCULATE_LATENCY_LATER
        THEN <<[wire |-> id, latency |-> ws[id].absolute_latency]>>
        ELSE <<>>])

\* latency_algorithm::convert_fanin_to_fanout: the fan-in lists inverted.
convert_fanin_to_fanout(fanins) ==
    [id \in WireIDs |->
        Flatten([t \in WireIDs |->
            Flatten([k \in 1..Len(fanins[t]) |->
                IF fanins[t][k].other = id
                THEN <<[other |-> t, delta_latency |-> fanins[t][k].delta_latency]>>
                ELSE <<>>])])]

\* ---- solve_latencies (instantiation/latency_algorithm.rs) ----
\* The solver is described by its contract: each operator below gives the
\* results of one kind that the solver may return for a latency graph.

\* The largest delta among the fan-in edges u -> w (none: the sentinel).
RECURSIVE EdgeDeltaFrom(_, _)
EdgeDeltaFrom(edges, u) ==
    IF edges = <<>> THEN CALCULATE_LATENCY_LATER
    ELSE LET rest == EdgeDeltaFrom(Tail(edges), u) IN
         IF Head(edges).other = u THEN Max(Head(edges).delta_latency, rest) ELSE rest

HasEdge(fanins, u, w) == \E k \in 1..Len(fanins[w]) : fanins[w][k].other = u

\* Walks u1 -> u2 -> ... along fan-in edges, without repeated interior wires.
IsWalk(fanins, p) ==
    /\ \A i \in 1..(Len(p) - 1) : HasEdge(fanins, p[i], p[i + 1])
    /\ \A i, j \in 1..(Len(p) - 1) : i # j => p[i] # p[j]
    /\ \A i, j \in 2..Len(p) : i # j => p[i] # p[j]

RECURSIVE WalkLatencies(_, _, _)
\* The latency of every stop of walk p when its first stop is at `start`.
WalkLatencies(fanins, p, start) ==
    IF Len(p) = 1 THEN <<[wire |-> p[1], latency |-> start]>>
    ELSE <<[wire |-> p[1], latency |-> start]>>
         \o WalkLatencies(fanins, Tail(p),
                          start + EdgeDeltaFrom(fanins[p[2]], p[1]))

WalksOfLen(n) == [1..n -> WireIDs]

\* Ok(latencies): every fan-in edge between two reached wires is respected,
\* with equality between two wires of specified latency, and every specified
\* latency is kept; an unreached wire keeps the sentinel.
SolveOk(fanins, initial) ==
    {[kind |-> "Ok", latencies |-> lat] :
        lat \in {l \in [WireIDs -> Latencies \cup {CALCULATE_LATENCY_LATER}] :
            /\ \A k \in 1..Len(initial) : l[initial[k].wire] = initial[k].latency
            /\ \A w \in WireIDs : \A k \in 1..Len(fanins[w]) :
                   (l[w] # CALCULATE_LATENCY_LATER
                    /\ l[fanins[w][k].other] # CALCULATE_LATENCY_LATER)
                   => /\ l[w] >= l[fanins[w][k].other] + fanins[w][k].delta_latency
                      /\ (\E i, j \in 1..Len(initial) :
                              initial[i].wire = w /\ initial[j].wire = fanins[w][k].other)
                         => l[w] = l[fanins[w][k].other] + fanins[w][k].delta_latency}}

\* NetPositiveLatencyCycle: a cycle of the graph, closed on its first wire,
\* whose deltas sum to more than 0.
SolveNetPositiveLatencyCycle(fanins) ==
    {[kind |-> "NetPositiveLatencyCycle",
      conflict_path |-> WalkLatencies(fanins, p, 0),
      net_roundtrip_latency |-> WalkLatencies(fanins, p, 0)[Len(p)].latency] :
        p \in {q \in UNION {WalksOfLen(n) : n \in 2..(NumWires + 1)} :
                 /\ q[1] = q[Len(q)]
                 /\ IsWalk(fanins, q)
                 /\ WalkLatencies(fanins, q, 0)[Len(q)].latency >= 1}}

\* IndeterminablePortLatency: a non-empty list of port wires, each with the
\* two latencies the solver found for it.
SolveIndeterminablePortLatency(inputs, outputs) ==
    {[kind |-> "IndeterminablePortLatency",
      bad_ports |-> Flatten([w \in WireIDs |->
                        IF w \in bad THEN <<(<<w, 0, 1>>)>> ELSE <<>>])] :
        bad \in (SUBSET (Range(inputs) \cup Range(outputs))) \ {{}}}

\* ConflictingSpecifiedLatencies: a path between two wires with specified
\* latencies whose deltas do not add up to the difference specified.
SolveConflictingSpecifiedLatencies(fanins, initial) ==
    {[kind |-> "ConflictingSpecifiedLatencies",
      conflict_path |-> WalkLatencies(fanins, p[2], p[1].latency)] :
        p \in {q \in Range(initial) \X UNION {WalksOfLen(n) : n \in 2..NumWires} :
                 /\ q[2][1] = q[1].wire
                 /\ IsWalk(fanins, q[2])
                 /\ q[2][1] # q[2][Len(q[2])]
                 /\ \E k \in 1..Len(initial) :
                       /\ initial[k].wire = q[2][Len(q[2])]
                       /\ initial[k].latency #
                            WalkLatencies(fanins, q[2], q[1].latency)[Len(q[2])].latency}}

\* ---- error reporting of compute_latencies ----

\* gather_all_mux_inputs: for every step from -> to of the path whose target
\* is a multiplexer, the multiplexer sources of `to` that read `from`.
gather_all_mux_inputs(ws, conflict_iter) ==
    Flatten([i \in 1..(Len(conflict_iter) - 1) |->
        LET from_wire_id == conflict_iter[i].wire
            to == conflict_iter[i + 1]
            to_wire == ws[to.wire]
        IN IF to_wire.source.kind # "Multiplexer" THEN <<>>
           ELSE Flatten([k \in 1..Len(to_wire.source.sources) |->
                  IF from_wire_id \in Range(for_each_source(to_wire.source.sources[k]))
                  THEN <<[to_wire |-> to.wire, to_latency |-> to.latency,
                          mux_input |-> to_wire.source.sources[k]]>>
                  ELSE <<>>])])

RECURSIVE filter_unique_write_flats_from(_, _)
filter_unique_write_flats_from(writes, result) ==
    IF writes = <<>> THEN result
    ELSE LET original_write == Head(writes).mux_input.original_connection IN
         filter_unique_write_flats_from(Tail(writes),
            IF original_write \in Range(result) THEN result
            ELSE Append(result, original_write))

filter_unique_write_flats_NoDedup(writes) ==
    [k \in 1..Len(writes) |-> writes[k].mux_input.original_connection]

\* filter_unique_write_flats: the Write instructions of the gathered
\* multiplexer sources, each once, in order of first occurrence.
filter_unique_write_flats(writes) == filter_unique_write_flats_from(writes, <<>>)

Error(span, message) == [span |-> span, message |-> message]

\* latency_count.rs:178-196: the errors of a net-positive latency cycle.
NetPositiveCycleErrors(md, unique_write_instructions) ==
    LET at_regs == Flatten([k \in 1..Len(unique_write_instructions) |->
                      IF md[unique_write_instructions[k]].num_regs >= 1
                      THEN <<Error(<<"regs_span", unique_write_instructions[k]>>,
                                   "net-positive latency cycle")>>
                      ELSE <<>>])
        did_place_error == at_regs # <<>>
    IN IF did_place_error THEN at_regs
       ELSE [k \in 1..Len(unique_write_instructions) |->
                Error(<<"to.span", unique_write_instructions[k]>>,
                      "net-positive latency cycle")]

\* latency_count.rs:170: assert!(!writes_involved.is_empty())
CycleAssertFails(ws, result) ==
    /\ result.kind = "NetPositiveLatencyCycle"
    /\ gather_all_mux_inputs(ws, result.conflict_path) = <<>>

UnreachedNodeErrors_Silent(ws, latencies) == <<>>

\* latency_count.rs:157-163: an error for every wire the solver left at the
\* sentinel.
UnreachedNodeErrors(ws, latencies) ==
    Flatten([id \in WireIDs |->
        IF latencies[id] = CALCULATE_LATENCY_LATER
        THEN <<Error(<<"instruction_span", ws[id].original_instruction>>,
                     "Latency Counting couldn't reach this node")>>
        ELSE <<>>])

\* latency_count.rs:155-225: the errors reported for a solver result.
ReportedErrors(ws, md, result) ==
    CASE result.kind = "Ok" -> UnreachedNodeErrors(ws, result.latencies)
      [] result.kind = "NetPositiveLatencyCycle" ->
            NetPositiveCycleErrors(md,
                filter_unique_write_flats(gather_all_mux_inputs(ws, result.conflict_path)))
      [] result.kind = "IndeterminablePortLatency" ->
            [k \in 1..Len(result.bad_ports) |->
                Error(<<"name_span", ws[result.bad_ports[k][1]].original_instruction>>,
                      "Cannot determine port latency")]
      [] result.kind = "ConflictingSpecifiedLatencies" ->
            <<Error(<<"latency_specifier.span",
                      ws[result.conflict_path[Len(result.conflict_path)].wire].original_instruction>>,
                    "Conflicting specified latency")>>

\* latency_count.rs:156-165: on Ok every wire takes its solved latency.
WiresAfterSolve(ws, result) ==
    IF result.kind = "Ok"
    THEN [id \in WireIDs |-> [ws[id] EXCEPT !.absolute_latency = result.latencies[id]]]
    ELSE ws

RECURSIVE MaxTargetLatency(_, _, _)
MaxTargetLatency(ws, targets, needed_until) ==
    IF targets = <<>> THEN needed_until
    ELSE MaxTargetLatency(ws, Tail(targets),
                          Max(needed_until, ws[Head(targets).other].absolute_latency))

ComputeNeededUntil_NoFanout(ws, fanouts, id) == ws[id].absolute_latency

\* latency_count.rs:228-237: needed_until of wire id.
ComputeNeededUntil(ws, fanouts, id) ==
    MaxTargetLatency(ws, fanouts[id], ws[id].absolute_latency)

UpdateInterfacePorts_Skipped(ports, ws) == ports

\* latency_count.rs:240-242: every valid port takes the latency of its wire.
UpdateInterfacePorts(ports, ws) ==
    [p \in PortIDs |->
        IF ports[p] = <<>> THEN <<>>
        ELSE <<[ports[p][1] EXCEPT !.absolute_latency = ws[ports[p][1].wire].absolute_latency]>>]

PortWires(ports, is_input) ==
    Flatten([p \in PortIDs |->
        IF ports[p] # <<>> /\ ports[p][1].is_input = is_input
        THEN <<ports[p][1].wire>> ELSE <<>>])

\* compute_latencies for one result of the solver.
compute_latencies(result) ==
    /\ lat_pc = "instantiated"
    /\ solve_result' = result
    /\ IF CycleAssertFails(wires, result)
       THEN /\ lat_pc' = "panicked"
            /\ UNCHANGED <<wires, interface_ports, errors>>
       ELSE LET fanouts == convert_fanin_to_fanout(make_fanins(wires, submodules))
                solved == WiresAfterSolve(wires, result)
                final == [id \in WireIDs |->
                            [solved[id] EXCEPT !.needed_until =
                                ComputeNeededUntil(solved, fanouts, id)]]
            IN /\ wires' = final
               /\ errors' = errors \o ReportedErrors(wires, md_instructions, result)
               /\ interface_ports' = UpdateInterfacePorts(interface_ports, final)
               /\ lat_pc' = "latency_counted"
    /\ UNCHANGED <<submodules, md_instructions, program_text>>
    /\ UNCHANGED linkVars
    /\ UNCHANGED flatVars
    /\ UNCHANGED hmVars
    /\ UNCHANGED mgVars
    /\ UNCHANGED rtVars

\* The four kinds of result solve_latencies(&fanins, &fanouts, &inputs,
\* &outputs, initial_latencies) may return (latency_count.rs:155).
ComputeLatenciesOk ==
    \E result \in SolveOk(make_fanins(wires, submodules), initial_latencies(wires)) :
        compute_latencies(result)
ComputeLatenciesNetPositiveLatencyCycle ==
    \E result \in SolveNetPositiveLatencyCycle(make_fanins(wires, submodules)) :
        compute_latencies(result)
ComputeLatenciesIndeterminablePortLatency ==
    \E result \in SolveIndeterminablePortLatency(PortWires(interface_ports, TRUE),
                                                 PortWires(interface_ports, FALSE)) :
        compute_latencies(result)
ComputeLatenciesConflictingSpecifiedLatencies ==
    \E result \in SolveConflictingSpecifiedLatencies(make_fanins(wires, submodules),
                                                     initial_latencies(wires)) :
        compute_latencies(result)

\* ---- the instantiations latency counting is run on ----

Source(kind, right, sources) == [kind |-> kind, right |-> right, sources |-> sources]

RealWire(source, absolute_latency, id) ==
    [source |-> source, absolute_latency |-> absolute_latency,
     needed_until |-> CALCULATE_LATENCY_LATER, original_instruction |-> id]

\* The Write instructions of the module, each with the num_regs of its
\* modifier (writes are numbered so that num_regs does not decrease).
WriteChoices ==
    {wr \in [WriteFlats -> [kind : {"Write"}, num_regs : 0..MaxRegs]] :
        \A a, b \in WriteFlats : a <= b => wr[a].num_regs <= wr[b].num_regs}

\* A multiplexer source carries the num_regs of the write it comes from.
MuxSourceChoices(wr) ==
    {[from |-> f, condition |-> c, num_regs |-> wr[oc].num_regs, original_connection |-> oc] :
        f \in WireIDs, c \in Option(WireIDs), oc \in WriteFlats}

\* A declaration wire is an input (ReadOnly), a multiplexer driven by at most
\* one write, or the output of a sub-module (OutPort); only the first two can
\* carry a latency specifier.
DeclWireChoices(id, wr) ==
    {RealWire(src, a, id) :
        src \in {Source("ReadOnly", <<>>, <<>>)}
                \cup {Source("Multiplexer", <<>>, ss) :
                        ss \in {<<>>} \cup {<<s>> : s \in MuxSourceChoices(wr)}},
        a \in Latencies \cup {CALCULATE_LATENCY_LATER}}
    \cup {RealWire(Source("OutPort", <<>>, <<>>), CALCULATE_LATENCY_LATER, id)}

\* An expression wire reads a wire created before it.
ExprWireChoices(id) ==
    {RealWire(Source("UnaryOp", <<r>>, <<>>), CALCULATE_LATENCY_LATER, id) : r \in 1..(id - 1)}

RECURSIVE WireSeqs(_, _)
WireSeqs(n, wr) ==
    IF n = 0 THEN {<<>>}
    ELSE {Append(p, w) : p \in WireSeqs(n - 1, wr),
                         w \in DeclWireChoices(n, wr) \cup ExprWireChoices(n)}

\* At most one sub-module instance, with input port 1 and output port 2: its
\* input is a multiplexer wire of the caller, its output the OutPort wire. A
\* port of the callee may be absent from its instantiation.
SubmoduleChoices(ws) ==
    IF \A w \in WireIDs : ws[w].source.kind # "OutPort" THEN {<<>>}
    ELSE {<<[port_map |-> pm,
             instance |-> [interface_ports |-> <<i, o>>]]>> :
            pm \in {m \in [PortIDs -> WireIDs] :
                      /\ ws[m[1]].source.kind = "Multiplexer"
                      /\ \A w \in WireIDs : ws[w].source.kind = "OutPort" <=> w = m[2]},
            i \in Option([is_input : {TRUE}, absolute_latency : {0}]),
            o \in Option([is_input : {FALSE}, absolute_latency : Latencies])}

\* The interface ports are the first declarations of the module: port p is
\* wire p, an input when the wire is ReadOnly and an output when it is a
\* multiplexer.
InterfacePortChoices(ws, subs) ==
    {[p \in PortIDs |->
        IF p <= n
        THEN <<[wire |-> p, is_input |-> ws[p].source.kind = "ReadOnly",
                absolute_latency |-> CALCULATE_LATENCY_LATER]>>
        ELSE <<>>] :
      n \in {k \in 0..NumWires : \A p \in 1..k :
                /\ p \in PortIDs
                /\ ws[p].source.kind \in {"ReadOnly", "Multiplexer"}
                /\ \A m \in 1..Len(subs) : p \notin Range(subs[m].port_map)}}

\* self.md.instructions: the instruction each wire came from, then the writes.
ModuleInstructions(ws, wr) ==
    [f \in WireIDs \cup WriteFlats |->
        IF f \in WriteFlats THEN wr[f]
        ELSE IF ws[f].source.kind = "UnaryOp" THEN [kind |-> "Wire"]
        ELSE [kind |-> "Declaration",
              latency_specifier |-> ws[f].absolute_latency # CALCULATE_LATENCY_LATER]]

LatInit ==
    /\ \E wr \in WriteChoices : \E ws \in WireSeqs(NumWires, wr) :
          /\ wires = ws
          /\ md_instructions = ModuleInstructions(ws, wr)
    /\ submodules \in SubmoduleChoices(wires)
    /\ interface_ports \in InterfacePortChoices(wires, submodules)
    /\ errors = <<>>
    /\ solve_result = [kind |-> "None"]
    /\ lat_pc = "instantiated"
    /\ program_text = [use_latency |-> FALSE, lines |-> <<>>, status |-> "none"]
    /\ LinkIdle
    /\ FlatIdle
    /\ HmIdle
    /\ MgIdle
    /\ RtIdle

\* ---- code generation: codegen_fallback.rs ----

\* A wire name written to the program text: `of` is the wire named, at the
\* latency asked for, while `wire` is emitted; `failed` holds the message of
\* the assertion that failed in making the name.
Line(kind, wire, of, latency, failed) ==
    [kind |-> kind, wire |-> wire, of |-> of, latency |-> latency, failed |-> failed]

\* wire_name_with_latency (codegen_fallback.rs:43-52): the assertion that
\* fails, or none.
wire_name_with_latency(wire, absolute_latency, use_latency) ==
    IF ~(wire.absolute_latency <= absolute_latency)
    THEN "assertion failed: wire.absolute_latency <= absolute_latency"
    ELSE IF ~(wire.needed_until >= absolute_latency)
    THEN "assertion failed: wire.needed_until >= absolute_latency"
    ELSE ""

\* CodeGenerationContext::wire_name of wire_id while `wire` is emitted (no
\* wire of the instantiations here is a constant that can be inlined).
wire_name(ws, kind, wire, wire_id, requested_latency, use_latency) ==
    Line(kind, wire, wire_id, requested_latency,
         wire_name_with_latency(ws[wire_id], requested_latency, use_latency))

\* wire_name_self_latency
wire_name_self_latency(ws, kind, wire_id, use_latency) ==
    wire_name(ws, kind, wire_id, wire_id, ws[wire_id].absolute_latency, use_latency)

\* Registers up to and including needed_until + 1.
add_latency_registers_OneMore(ws, w, use_latency) ==
    IF ~use_latency THEN <<>>
    ELSE IF CALCULATE_LATENCY_LATER \in {ws[w].absolute_latency, ws[w].needed_until}
    THEN <<Line("latency", w, w, 0, "assertion failed")>>
    ELSE Flatten([i \in 1..(ws[w].needed_until - ws[w].absolute_latency + 1) |->
            <<wire_name(ws, "latency from", w, w, ws[w].absolute_latency + i - 1, use_latency),
              wire_name(ws, "latency to", w, w, ws[w].absolute_latency + i, use_latency)>>])

\* add_latency_registers (codegen_fallback.rs:101-116): a register from
\* latency i to i + 1 for every i in absolute_latency..needed_until.
add_latency_registers(ws, w, use_latency) ==
    IF ~use_latency THEN <<>>
    ELSE IF ~(ws[w].absolute_latency # CALCULATE_LATENCY_LATER)
    THEN <<Line("latency", w, w, 0,
                "assertion failed: w.absolute_latency != CALCULATE_LATENCY_LATER")>>
    ELSE IF ~(ws[w].needed_until # CALCULATE_LATENCY_LATER)
    THEN <<Line("latency", w, w, 0,
                "assertion failed: w.needed_until != CALCULATE_LATENCY_LATER")>>
    ELSE Flatten([i \in 1..(ws[w].needed_until - ws[w].absolute_latency) |->
            <<wire_name(ws, "latency from", w, w, ws[w].absolute_latency + i - 1, use_latency),
              wire_name(ws, "latency to", w, w, ws[w].absolute_latency + i, use_latency)>>])

\* The wires that are ports of the module (DeclarationPortInfo::RegularPort).
IsRegularPort(ports, w) == \E p \in PortIDs : ports[p] # <<>> /\ ports[p][1].wire = w

\* write_verilog_code (codegen_fallback.rs:118-245): every wire name it
\* makes, in the order of the code.
write_verilog_code(ws, subs, ports, use_latency) ==
    Flatten([p \in PortIDs |->
        IF ports[p] = <<>> THEN <<>>
        ELSE <<wire_name_self_latency(ws, "port", ports[p][1].wire, use_latency)>>])
    \o Flatten([p \in PortIDs |->
        IF ports[p] = <<>> THEN <<>>
        ELSE add_latency_registers(ws, ports[p][1].wire, use_latency)])
    \o Flatten([w \in WireIDs |->
        IF IsRegularPort(ports, w) THEN <<>>
        ELSE <<wire_name_self_latency(ws, "declaration", w, use_latency)>>
             \o (IF ws[w].source.kind = "UnaryOp"
                 THEN <<wire_name(ws, "read", w, ws[w].source.right[1],
                                  ws[w].absolute_latency, use_latency)>>
                 ELSE <<>>)
             \o add_latency_registers(ws, w, use_latency)])
    \o Flatten([m \in 1..Len(subs) |->
        Flatten([port_id \in PortIDs |->
            IF subs[m].instance.interface_ports[port_id] = <<>> THEN <<>>
            ELSE <<wire_name_self_latency(ws, "submodule port",
                                          subs[m].port_map[port_id], use_latency)>>])])
    \o Flatten([w \in WireIDs |->
        IF ws[w].source.kind # "Multiplexer" THEN <<>>
        ELSE <<wire_name_self_latency(ws, "multiplexer", w, use_latency)>>
             \o Flatten([k \in 1..Len(ws[w].source.sources) |->
                    [i \in 1..Len(for_each_source(ws[w].source.sources[k])) |->
                        wire_name(ws, "read", w, for_each_source(ws[w].source.sources[k])[i],
                                  ws[w].absolute_latency, use_latency)]])])

\* gen_verilog_code: the text up to the first assertion that fails.
gen_verilog_code(ws, subs, ports, use_latency) ==
    LET lines == write_verilog_code(ws, subs, ports, use_latency)
        failing == {k \in DOMAIN lines : lines[k].failed # ""}
    IN IF failing = {}
       THEN [use_latency |-> use_latency, lines |-> lines, status |-> "ok"]
       ELSE LET first == CHOOSE k \in failing : \A j \in failing : k <= j
            IN [use_latency |-> use_latency, lines |-> SubSeq(lines, 1, first - 1),
                status |-> lines[first].failed]

GenVerilogCode ==
    /\ lat_pc = "latency_counted"
    /\ \E use_latency \in BOOLEAN :
          program_text' = gen_verilog_code(wires, submodules, interface_ports, use_latency)
    /\ lat_pc' = "code_generated"
    /\ UNCHANGED <<wires, submodules, interface_ports, md_instructions, errors,
                   solve_result>>
    /\ UNCHANGED linkVars
    /\ UNCHANGED flatVars
    /\ UNCHANGED hmVars
    /\ UNCHANGED mgVars
    /\ UNCHANGED rtVars

LatNext ==
    \/ ComputeLatenciesOk
    \/ ComputeLatenciesNetPositiveLatencyCycle
    \/ ComputeLatenciesIndeterminablePortLatency
    \/ ComputeLatenciesConflictingSpecifiedLatencies
    \/ GenVerilogCode

SpecLatency == LatInit /\ [][LatNext]_vars

(***************************************************************************)
(* Properties of latency counting                                          *)
(***************************************************************************)

SetMax(S) == CHOOSE x \in S : \A y \in S : x >= y

Counted == lat_pc = "latency_counted"

HasSpecifiedLatency(w) ==
    /\ md_instructions[wires[w].original_instruction].kind = "Declaration"
    /\ md_instructions[wires[w].original_instruction].latency_specifier

\* The sub-module edges of the latency graph into caller wire w: for an
\* input port i and an output port o of one instance, both instantiated,
\* in -> out with delta latency(o) - latency(i), and out -> in with the
\* negated delta.
SubmoduleInEdges(w) ==
    UNION {UNION {
        LET ports == submodules[m].instance.interface_ports
            pm == submodules[m].port_map
        IN IF ports[i] = <<>> \/ ports[o] = <<>> THEN {}
           ELSE IF ~(ports[i][1].is_input /\ ~ports[o][1].is_input) THEN {}
           ELSE LET d == ports[o][1].absolute_latency - ports[i][1].absolute_latency IN
                (IF pm[o] = w THEN {[other |-> pm[i], delta_latency |-> d]} ELSE {})
                \cup (IF pm[i] = w THEN {[other |-> pm[o], delta_latency |-> -d]} ELSE {})
        : i \in PortIDs, o \in PortIDs} : m \in 1..Len(submodules)}

\* The in-edges of wire w in the latency graph: those from the data sources
\* of w and the sub-module edges.
LatencyGraphInEdges(w) ==
    Range(iter_sources_with_min_latency(wires[w].source)) \cup SubmoduleInEdges(w)

\* C1: after compute_latencies succeeds (the solver returned Ok and no error
\* was reported), every in-edge (u -> w, delta) of the latency graph, the
\* sub-module edges included, has w.absolute_latency >= u.absolute_latency +
\* delta, with equality when u and w both carry a specified latency.
C1_EdgesRespectedAfterSuccess ==
    (Counted /\ solve_result.kind = "Ok" /\ errors = <<>>) =>
        \A w \in WireIDs : \A e \in LatencyGraphInEdges(w) :
            /\ wires[w].absolute_latency
                  >= wires[e.other].absolute_latency + e.delta_latency
            /\ (HasSpecifiedLatency(w) /\ HasSpecifiedLatency(e.other))
                  => wires[w].absolute_latency
                        = wires[e.other].absolute_latency + e.delta_latency

\* C2: for every sub-module instance and every input port i and output port
\* o of it that are both instantiated, make_fanins holds an edge between the
\* two mapped caller wires in each direction, with weights latency(o) -
\* latency(i) and its negation; the sub-module fan-in of a wire holds no
\* other edge (none between two inputs or two outputs).
C2_SubmoduleEdgesAdded ==
    \A w \in WireIDs :
        /\ \A e \in SubmoduleInEdges(w) :
              e \in Range(make_fanins(wires, submodules)[w])
        /\ Range(SubmoduleFanins(submodules, w)) \subseteq SubmoduleInEdges(w)

\* C3: after compute_latencies, whatever the solver returned, needed_until
\* of every wire w is the maximum of its absolute_latency and that of every
\* wire that has w in its fan-in list.
C3_NeededUntilIsMaxOverFanout ==
    Counted =>
        \A w \in WireIDs :
            wires[w].needed_until =
                SetMax({wires[w].absolute_latency}
                       \cup {wires[t].absolute_latency : t \in
                               {x \in WireIDs :
                                  \E k \in 1..Len(make_fanins(wires, submodules)[x]) :
                                     make_fanins(wires, submodules)[x][k].other = w}})

C3_Witness ==
    /\ Counted
    /\ solve_result.kind # "Ok"
    /\ \E w \in WireIDs : wires[w].needed_until > wires[w].absolute_latency
                          /\ wires[w].absolute_latency # CALCULATE_LATENCY_LATER

\* C4: after compute_latencies completes without reporting an error, every
\* wire has absolute_latency <= needed_until and neither is the sentinel.
C4_FiniteAndOrdered ==
    (Counted /\ errors = <<>>) =>
        \A w \in WireIDs :
            /\ wires[w].absolute_latency <= wires[w].needed_until
            /\ wires[w].absolute_latency # CALCULATE_LATENCY_LATER
            /\ wires[w].needed_until # CALCULATE_LATENCY_LATER

C4_Witness ==
    /\ Counted /\ errors = <<>>
    /\ \E w \in WireIDs : wires[w].absolute_latency < wires[w].needed_until

\* C5: after compute_latencies every interface port record has the
\* absolute_latency of its wire, and that latency is finite unless at least
\* one error was reported; for each of the four results of the solver.
C5_PortLatenciesDetermined ==
    Counted =>
        /\ solve_result.kind \in {"Ok", "NetPositiveLatencyCycle",
                                  "IndeterminablePortLatency",
                                  "ConflictingSpecifiedLatencies"}
        /\ \A p \in PortIDs : interface_ports[p] # <<>> =>
              /\ interface_ports[p][1].absolute_latency
                    = wires[interface_ports[p][1].wire].absolute_latency
              /\ \/ interface_ports[p][1].absolute_latency # CALCULATE_LATENCY_LATER
                 \/ errors # <<>>

C5_Witness ==
    /\ Counted
    /\ solve_result.kind = "IndeterminablePortLatency"
    /\ \E p, q \in PortIDs :
          /\ interface_ports[p] # <<>> /\ interface_ports[q] # <<>>
          /\ interface_ports[p][1].absolute_latency = CALCULATE_LATENCY_LATER
          /\ interface_ports[q][1].absolute_latency # CALCULATE_LATENCY_LATER

\* The writes on the conflict path: the writes behind the multiplexer
\* sources through which a step of the path passes.
WritesOnPath ==
    {x.mux_input.original_connection :
        x \in Range(gather_all_mux_inputs(wires, solve_result.conflict_path))}

ErrorsAt(span) == Cardinality({k \in DOMAIN errors : errors[k].span = span})

\* C6: on NetPositiveLatencyCycle, if a write of the conflict path has
\* num_regs >= 1 then exactly one error is reported per distinct such write,
\* at its regs span, and none at a write target; otherwise exactly one error
\* per distinct write of the path, at its target span. At least one error is
\* reported, and a write met several times on the path is reported once.
C6_CycleErrorPlacement ==
    (Counted /\ solve_result.kind = "NetPositiveLatencyCycle") =>
        LET with_regs == {wr \in WritesOnPath : md_instructions[wr].num_regs >= 1} IN
        /\ Len(errors) >= 1
        /\ IF with_regs # {}
           THEN /\ \A wr \in with_regs : ErrorsAt(<<"regs_span", wr>>) = 1
                /\ Len(errors) = Cardinality(with_regs)
                /\ \A k \in DOMAIN errors : errors[k].span[1] # "to.span"
           ELSE /\ \A wr \in WritesOnPath : ErrorsAt(<<"to.span", wr>>) = 1
                /\ Len(errors) = Cardinality(WritesOnPath)

C6_Witness ==
    /\ Counted /\ solve_result.kind = "NetPositiveLatencyCycle"
    /\ Len(gather_all_mux_inputs(wires, solve_result.conflict_path))
          > Cardinality(WritesOnPath)
    /\ Len(errors) = 1

\* The latency registers written for wire w.
LatencyRegisters(w) ==
    {k \in DOMAIN program_text.lines :
        program_text.lines[k].kind = "latency to" /\ program_text.lines[k].wire = w}

FileIDs == 1..NumFiles
ModuleUUIDs == 1..MaxModules

BUILTIN_TYPES == <<"bool", "int">>
BUILTIN_CONSTANTS == <<"true", "false">>

\* The names modules are declared with: a name of their own or a builtin's.
ModuleNames == {"m", "int"}

\* The keys of global_namespace, in the order the map is iterated (the
\* order of a HashMap is unspecified; the errors are compared as sets).
NameSeq == BUILTIN_TYPES \o BUILTIN_CONSTANTS \o <<"m">>
Names == Range(NameSeq)

\* NameElem::Module(id) | NameElem::Type(id) | NameElem::Constant(id)
NameElem(kind, id) == [kind |-> kind, id |-> id]

\* NamespaceElement, and a key the map does not hold.
Vacant == [kind |-> "Vacant", elems |-> <<>>]
Global(g) == [kind |-> "Global", elems |-> <<g>>]
Colission(colission) == [kind |-> "Colission", elems |-> colission]

PositionIn(seq, x) == CHOOSE i \in 1..Len(seq) : seq[i] = x

\* Linker::new: the builtins, each under its unique name.
NewGlobalNamespace ==
    [name \in Names |->
        IF name \in Range(BUILTIN_TYPES)
        THEN Global(NameElem("Type", PositionIn(BUILTIN_TYPES, name)))
        ELSE IF name \in Range(BUILTIN_CONSTANTS)
        THEN Global(NameElem("Constant", PositionIn(BUILTIN_CONSTANTS, name)))
        ELSE Vacant]

\* A lookup that answers with the first module of a collision too.
get_module_id_FirstOfColission(ns, name) ==
    IF ns[name].kind \in {"Global", "Colission"} /\ ns[name].elems[1].kind = "Module"
    THEN <<ns[name].elems[1].id>> ELSE <<>>

get_module_id(ns, name) ==
    IF ns[name].kind = "Global" /\ ns[name].elems[1].kind = "Module"
    THEN <<ns[name].elems[1].id>> ELSE <<>>

get_type_id(ns, name) ==
    IF ns[name].kind = "Global" /\ ns[name].elems[1].kind = "Type"
    THEN <<ns[name].elems[1].id>> ELSE <<>>

get_constant_id(ns, name) ==
    IF ns[name].kind = "Global" /\ ns[name].elems[1].kind = "Constant"
    THEN <<ns[name].elems[1].id>> ELSE <<>>

\* Linker::get_link_info: None for types and constants.
get_link_info(mods, global) ==
    IF global.kind = "Module" THEN <<mods[global.id][1].link_info>> ELSE <<>>

error_info(position, file_id, info) ==
    [position |-> position, file_id |-> file_id, info |-> info]

ConflictInfos_WithItself(infos, idx) ==
    Flatten([idx_2 \in 1..Len(infos) |->
        IF infos[idx_2] # <<>>
        THEN <<error_info(infos[idx_2][1].name_span, infos[idx_2][1].file, "Conflicts with")>>
        ELSE <<>>])

\* linker/mod.rs:275-287: an info for every other declaration of the
\* collision that has a LinkInfo.
ConflictInfos(infos, idx) ==
    Flatten([idx_2 \in 1..Len(infos) |->
        IF idx_2 = idx THEN <<>>
        ELSE IF infos[idx_2] # <<>>
        THEN <<error_info(infos[idx_2][1].name_span, infos[idx_2][1].file, "Conflicts with")>>
        ELSE <<>>])

\* linker/mod.rs:276-284
BuiltinConflict(infos, idx) ==
    \E idx_2 \in 1..Len(infos) : idx_2 # idx /\ infos[idx_2] = <<>>

\* linker/mod.rs:269-294: the errors one collision gives in file file_uuid.
CollisionErrors(mods, colission, file_uuid) ==
    LET infos == [i \in 1..Len(colission) |-> get_link_info(mods, colission[i])] IN
    Flatten([idx \in 1..Len(infos) |->
        IF infos[idx] = <<>> THEN <<>>
        ELSE IF infos[idx][1].file # file_uuid THEN <<>>
        ELSE <<[position |-> infos[idx][1].name_span,
                reason |-> IF BuiltinConflict(infos, idx)
                           THEN "Cannot redeclare the builtin"
                           ELSE "conflicts with other declarations:",
                infos |-> ConflictInfos(infos, idx)]>>])

get_duplicate_declaration_errors(mods, ns, file_uuid) ==
    Flatten([n \in 1..Len(NameSeq) |->
        IF ns[NameSeq[n]].kind # "Colission" THEN <<>>
        ELSE CollisionErrors(mods, ns[NameSeq[n]].elems, file_uuid)])

\* Linker::get_flattening_errors: the errors of the modules of the file.
get_flattening_errors(fs, mods, file_uuid) ==
    Flatten([k \in 1..Len(fs[file_uuid].associated_values) |->
        LET v == fs[file_uuid].associated_values[k] IN
        IF v.kind = "Module" THEN mods[v.id][1].link_info.errors ELSE <<>>])

get_all_errors_in_file(fs, mods, ns, file_uuid) ==
    fs[file_uuid].parsing_errors
    \o get_duplicate_declaration_errors(mods, ns, file_uuid)
    \o get_flattening_errors(fs, mods, file_uuid)

\* FileBuilder::add_name
add_name(ns, name, new_obj_id) ==
    [ns EXCEPT ![name] =
        CASE ns[name].kind = "Global" -> Colission(<<ns[name].elems[1], new_obj_id>>)
          [] ns[name].kind = "Colission" -> Colission(Append(ns[name].elems, new_obj_id))
          [] ns[name].kind = "Vacant" -> Global(new_obj_id)]

RetainNamespaceElement_KeepAll(v, to_remove_set) == v

\* linker/mod.rs:336-348: what retain leaves of one namespace entry.
RetainNamespaceElement(v, to_remove_set) ==
    CASE v.kind = "Global" ->
            IF v.elems[1] \in to_remove_set THEN Vacant ELSE v
      [] v.kind = "Colission" ->
            LET retain_vec == SelectSeq(v.elems, LAMBDA g : g \notin to_remove_set) IN
            IF Len(retain_vec) > 0 THEN Colission(retain_vec) ELSE Vacant
      [] OTHER -> v

LastOp(op, file, removed, before, result) ==
    [op |-> op, file |-> file, removed |-> removed, before |-> before, result |-> result]

\* FileBuilder::add_module for a module named `name` of file file_id; the
\* arena hands out a free slot.
add_module(file_id, name, slot) ==
    /\ link_last.op # "idle"
    /\ modules[slot] = <<>>
    /\ LET md == [link_info |->
                    [file |-> file_id, name |-> name,
                     name_span |-> Len(files[file_id].associated_values) + 1,
                     errors |-> <<>>]]
           new_module_uuid == NameElem("Module", slot)
       IN /\ modules' = [modules EXCEPT ![slot] = <<md>>]
          /\ files' = [files EXCEPT ![file_id].associated_values =
                                        Append(@, new_module_uuid)]
          /\ global_namespace' = add_name(global_namespace, name, new_module_uuid)
    /\ ns_checkpoint' =
          IF files[file_id].associated_values = <<>>
          THEN <<[file |-> file_id, global_namespace |-> global_namespace]>>
          ELSE IF ns_checkpoint # <<>> /\ ns_checkpoint[1].file = file_id
          THEN ns_checkpoint ELSE <<>>
    /\ link_last' = LastOp("add_module", file_id, {}, <<>>, <<>>)
    /\ UNCHANGED latVars
    /\ UNCHANGED flatVars
    /\ UNCHANGED hmVars
    /\ UNCHANGED mgVars
    /\ UNCHANGED rtVars

\* Linker::remove_everything_in_file
remove_everything_in_file(file_uuid) ==
    /\ link_last.op # "idle"
    /\ LET to_remove_set == Range(files[file_uuid].associated_values) IN
       /\ files' = [files EXCEPT ![file_uuid].associated_values = <<>>]
       /\ modules' = [id \in ModuleUUIDs |->
                        IF NameElem("Module", id) \in to_remove_set
                        THEN <<>> ELSE modules[id]]
       /\ global_namespace' =
             [name \in Names |->
                RetainNamespaceElement(global_namespace[name], to_remove_set)]
       /\ link_last' = LastOp("remove_everything_in_file", file_uuid, to_remove_set,
                              IF ns_checkpoint # <<>> /\ ns_checkpoint[1].file = file_uuid
                              THEN <<ns_checkpoint[1].global_namespace>> ELSE <<>>,
                              <<>>)
    /\ ns_checkpoint' = <<>>
    /\ UNCHANGED latVars
    /\ UNCHANGED flatVars
    /\ UNCHANGED hmVars
    /\ UNCHANGED mgVars
    /\ UNCHANGED rtVars

\* Linker::get_all_errors_in_file, a query.
GetAllErrorsInFile(file_uuid) ==
    /\ link_last.op # "idle"
    /\ link_last' = LastOp("get_all_errors_in_file", file_uuid, {}, <<>>,
                           get_all_errors_in_file(files, modules, global_namespace,
                                                  file_uuid))
    /\ UNCHANGED <<files, modules, global_namespace, ns_checkpoint>>
    /\ UNCHANGED latVars
    /\ UNCHANGED flatVars
    /\ UNCHANGED hmVars
    /\ UNCHANGED mgVars
    /\ UNCHANGED rtVars

AddModule == \E f \in FileIDs, name \in ModuleNames, slot \in ModuleUUIDs :
                add_module(f, name, slot)
RemoveEverythingInFile == \E f \in FileIDs : remove_everything_in_file(f)
GetAllErrors == \E f \in FileIDs : GetAllErrorsInFile(f)

\* Linker::new, then the files are registered, each with the errors of its
\* parse and no global yet.
LinkInit ==
    /\ files \in [FileIDs -> [associated_values : {<<>>},
                              parsing_errors : {<<>>, <<[position |-> 0,
                                                         reason |-> "syntax error",
                                                         infos |-> <<>>]>>}]]
    /\ modules = [id \in ModuleUUIDs |-> <<>>]
    /\ global_namespace = NewGlobalNamespace
    /\ link_last = LastOp("new", 0, {}, <<>>, <<>>)
    /\ ns_checkpoint = <<>>
    /\ LatIdle
    /\ FlatIdle
    /\ HmIdle
    /\ MgIdle
    /\ RtIdle

LinkNext == AddModule \/ RemoveEverythingInFile \/ GetAllErrors

SpecLinker == LinkInit /\ [][LinkNext]_vars

(***************************************************************************)
(* Properties of the linker                                                *)
(***************************************************************************)

Removed == link_last.op = "remove_everything_in_file"

\* C7: registering the modules of a file f that had none (add_module, which
\* calls add_name) and then calling remove_everything_in_file(f) leaves the
\* global namespace as it was before the adds: every name has the entry of
\* the same shape it had, and get_module_id, get_type_id and get_constant_id
\* return for every name what they returned before.
C7_AddThenRemoveRestoresNamespace ==
    (Removed /\ link_last.before # <<>>) =>
        LET before == link_last.before[1] IN
        /\ global_namespace = before
        /\ \A name \in Names :
              /\ get_module_id(global_namespace, name) = get_module_id(before, name)
              /\ get_type_id(global_namespace, name) = get_type_id(before, name)
              /\ get_constant_id(global_namespace, name) = get_constant_id(before, name)

\* C8: after remove_everything_in_file(f), whatever adds and removes came
\* before: the associated_values of f are empty, every global f owned is
\* freed, no namespace entry refers to one of them, no collision set is
\* empty, and every builtin and every global of another file is still
\* registered under its name.
C8_RemoveRetractsOnlyTheFile ==
    Removed =>
        /\ files[link_last.file].associated_values = <<>>
        /\ \A g \in link_last.removed : g.kind = "Module" => modules[g.id] = <<>>
        /\ \A name \in Names : \A k \in 1..Len(global_namespace[name].elems) :
              global_namespace[name].elems[k] \notin link_last.removed
        /\ \A name \in Names :
              global_namespace[name].kind = "Colission"
                 => Len(global_namespace[name].elems) > 0
        /\ \A i \in 1..Len(BUILTIN_TYPES) :
              NameElem("Type", i) \in Range(global_namespace[BUILTIN_TYPES[i]].elems)
        /\ \A i \in 1..Len(BUILTIN_CONSTANTS) :
              NameElem("Constant", i)
                 \in Range(global_namespace[BUILTIN_CONSTANTS[i]].elems)
        /\ \A f \in FileIDs \ {link_last.file} :
              \A v \in Range(files[f].associated_values) :
                 /\ modules[v.id] # <<>>
                 /\ v \in Range(global_namespace[modules[v.id][1].link_info.name].elems)

C8_Witness ==
    /\ Removed
    /\ Cardinality(link_last.removed) >= 2
    /\ global_namespace["m"].kind = "Colission"
    /\ global_namespace["int"].kind = "Colission"
    /\ \E f \in FileIDs : Len(files[f].associated_values) >= 1

\* The modules registered under a name.
ModulesNamed(name) ==
    {g \in Range(global_namespace[name].elems) : g.kind = "Module"}

\* The duplicate-declaration errors of a list of errors that lie at a span.
DuplicateErrorsAt(errs, span) ==
    {i \in DOMAIN errs :
        /\ errs[i].reason \in {"Cannot redeclare the builtin",
                               "conflicts with other declarations:"}
        /\ errs[i].position = span}

\* C9: when k >= 2 modules are registered under one name,
\* get_all_errors_in_file(f) holds for each of them that is declared in f
\* exactly one duplicate-declaration error at its name span, whose infos are
\* exactly the k-1 'Conflicts with' entries at the name span and file of the
\* other declarations; a module of another file gets no error in the list of
\* f (every duplicate-declaration error lies at the name span of a colliding
\* module of f).
C9_DuplicateDeclarationErrors ==
    link_last.op = "get_all_errors_in_file" =>
        LET f == link_last.file
            errs == link_last.result
            Info(g) == modules[g.id][1].link_info
        IN
        /\ \A name \in Names : Cardinality(ModulesNamed(name)) >= 2 =>
              \A g \in ModulesNamed(name) : Info(g).file = f =>
                 /\ Cardinality(DuplicateErrorsAt(errs, Info(g).name_span)) = 1
                 /\ \A i \in DuplicateErrorsAt(errs, Info(g).name_span) :
                       /\ Len(errs[i].infos) = Cardinality(ModulesNamed(name)) - 1
                       /\ Range(errs[i].infos) =
                             {error_info(Info(h).name_span, Info(h).file, "Conflicts with") :
                                 h \in ModulesNamed(name) \ {g}}
        /\ \A i \in DOMAIN errs : DuplicateErrorsAt(errs, errs[i].position) # {} =>
              \E name \in Names : \E g \in ModulesNamed(name) :
                 /\ global_namespace[name].kind = "Colission"
                 /\ Info(g).file = f
                 /\ Info(g).name_span = errs[i].position

C9_Witness ==
    /\ link_last.op = "get_all_errors_in_file"
    /\ Cardinality(ModulesNamed("m")) = 3
    /\ Cardinality({g \in ModulesNamed("m") :
                       modules[g.id][1].link_info.file = link_last.file}) = 2
    /\ Len(link_last.result) >= 2

\* The live globals of a name, from the arenas: the modules allocated with
\* that name and the builtin type or constant of that name.
LiveGlobals(name) ==
    {NameElem("Module", id) : id \in {id \in ModuleUUIDs :
        modules[id] # <<>> /\ modules[id][1].link_info.name = name}}
    \cup {NameElem("Type", i) : i \in {i \in 1..Len(BUILTIN_TYPES) : BUILTIN_TYPES[i] = name}}
    \cup {NameElem("Constant", i) :
             i \in {i \in 1..Len(BUILTIN_CONSTANTS) : BUILTIN_CONSTANTS[i] = name}}

\* C29: get_module_id, get_type_id and get_constant_id return an id only when
\* the global of that id and kind is the one live global of the name; while
\* two or more live globals share a name all three return None, and a module
\* that redeclares a builtin gets the error 'Cannot redeclare the builtin' in
\* the errors of its file.
C29_UniqueNameLookup ==
    /\ \A name \in Names :
          /\ get_module_id(global_namespace, name) # <<>> =>
                LiveGlobals(name) = {NameElem("Module", get_module_id(global_namespace, name)[1])}
          /\ get_type_id(global_namespace, name) # <<>> =>
                LiveGlobals(name) = {NameElem("Type", get_type_id(global_namespace, name)[1])}
          /\ get_constant_id(global_namespace, name) # <<>> =>
                LiveGlobals(name) =
                    {NameElem("Constant", get_constant_id(global_namespace, name)[1])}
          /\ Cardinality(LiveGlobals(name)) >= 2 =>
                /\ get_module_id(global_namespace, name) = <<>>
                /\ get_type_id(global_namespace, name) = <<>>
                /\ get_constant_id(global_namespace, name) = <<>>
    /\ link_last.op = "get_all_errors_in_file" =>
          \A name \in Range(BUILTIN_TYPES) \cup Range(BUILTIN_CONSTANTS) :
              \A g \in ModulesNamed(name) :
                  modules[g.id][1].link_info.file = link_last.file =>
                      \E i \in DOMAIN link_last.result :
                          /\ link_last.result[i].reason = "Cannot redeclare the builtin"
                          /\ link_last.result[i].position = modules[g.id][1].link_info.name_span

C29_Witness ==
    /\ link_last.op = "get_all_errors_in_file"
    /\ Cardinality(LiveGlobals("int")) = 3
    /\ get_type_id(global_namespace, "int") = <<>>
    /\ get_type_id(global_namespace, "bool") # <<>>
    /\ get_module_id(global_namespace, "m") # <<>>
    /\ \E i \in DOMAIN link_last.result :
          link_last.result[i].reason = "Cannot redeclare the builtin"

(***************************************************************************)
(* Flattening: flattening/mod.rs                                           *)
(***************************************************************************)

\* UUID::PLACEHOLDER, the handle that stands for "filled in later".
PLACEHOLDER == 1000000

\* ---- the syntax tree flattening walks (ast.rs) ----
Named(name) == [kind |-> "Named", name |-> name]
Constant(value) == [kind |-> "Constant", value |-> value]

\* Value::Integer, Value::Bool and Value::Error
Integer(v) == [kind |-> "Integer", v |-> v]
Bool(v) == [kind |-> "Bool", v |-> IF v THEN 1 ELSE 0]
ValueError == [kind |-> "Error", v |-> 0]
UnaryOp(op, operate_on) == [kind |-> "UnaryOp", op |-> op, operate_on |-> operate_on]
BinOp(left, op, right) ==
    [kind |-> "BinOp", left |-> left, op |-> op, right |-> right]
Array(arr, idx) == [kind |-> "Array", arr |-> arr, idx |-> idx]
FuncCall(func_and_args) == [kind |-> "FuncCall", func_and_args |-> func_and_args]

NamedType(name) == [kind |-> "Named", name |-> name]
ArrayType(content, size) == [kind |-> "Array", content |-> content, size |-> size]

SignalDeclaration(name, typ, latency_expr, identifier_type) ==
    [name |-> name, typ |-> typ, latency_expr |-> latency_expr,
     identifier_type |-> identifier_type]

Assignable(expr) == [kind |-> "Assignable", assignable |-> expr]
DeclarationLeft(decl) == [kind |-> "Declaration", decl |-> decl]
NoModifiers == [kind |-> "NoModifiers", num_regs |-> 0]
LatencyAdding(num_regs) == [kind |-> "LatencyAdding", num_regs |-> num_regs]
Initial == [kind |-> "Initial", num_regs |-> 0]
AssignTo(left, modifiers) == [left |-> left, modifiers |-> modifiers]

Assign(to, expr) == [kind |-> "Assign", to |-> to, rhs |-> expr]
Block(code) == [kind |-> "Block", code |-> code]
If(condition, then, els) ==
    [kind |-> "If", condition |-> condition, then |-> then, els |-> els]
For(var, from, to, code) ==
    [kind |-> "For", var |-> var, from |-> from, to |-> to, code |-> code]

\* WrittenType and Type: kind and id are those of the innermost element type
\* (Named(id), Error or Unknown); sizes are the FlatIDs of the array size
\* expressions around it, outermost last, so the type is an array exactly
\* when sizes is not empty.
WrittenType(kind, id, sizes) == [kind |-> kind, id |-> id, sizes |-> sizes]
Type(kind, id, sizes) == [kind |-> kind, id |-> id, sizes |-> sizes]

\* WrittenType::to_type: Named(span, id) -> Named(id), Error(span) -> Error,
\* Array(span, (content, size)) -> Array(content.to_type(), size).
to_type(typ_expr) == Type(typ_expr.kind, typ_expr.id, typ_expr.sizes)

\* typing::BOOL_TYPE, typing::INT_TYPE
BOOL_TYPE == Type("Named", 1, <<>>)
INT_TYPE == Type("Named", 2, <<>>)

\* ---- the instructions (flattening/mod.rs:30-140) ----
WireInstance(source, is_declared_in_this_module) ==
    [kind |-> "Wire", typ |-> Type("Unknown", 0, <<>>), source |-> source,
     is_compiletime |-> FALSE,
     is_declared_in_this_module |-> is_declared_in_this_module]
WireRead(from) == [kind |-> "WireRead", operands |-> <<from>>]
UnaryOpSource(op, right) == [kind |-> "UnaryOp", op |-> op, operands |-> <<right>>]
BinaryOpSource(op, left, right) ==
    [kind |-> "BinaryOp", op |-> op, operands |-> <<left, right>>]
ArrayAccess(arr, arr_idx) == [kind |-> "ArrayAccess", operands |-> <<arr, arr_idx>>]
ConstantSource(value) == [kind |-> "Constant", operands |-> <<>>, value |-> value]
NamedConstant(cst) == [kind |-> "NamedConstant", operands |-> <<>>, value |-> cst]

ConnectionWrite(root, path, is_declared_in_this_module) ==
    [root |-> root, path |-> path,
     is_declared_in_this_module |-> is_declared_in_this_module]

Write(write_type, from, to) ==
    [kind |-> "Write", write_type |-> write_type, from |-> from, to |-> to]

IfStatement(condition, then_start, then_end_else_start, else_end) ==
    [kind |-> "IfStatement", condition |-> condition, then_start |-> then_start,
     then_end_else_start |-> then_end_else_start, else_end |-> else_end]

ForStatement(loop_var_decl, start, end, loop_body) ==
    [kind |-> "ForStatement", loop_var_decl |-> loop_var_decl, start |-> start,
     end |-> end, loop_body |-> loop_body]

\* ---- FlatteningContext ----
\* The frames of the LocalVariableContext are sets of <<name, FlatID>>, the
\* innermost frame last.
FlatteningContext(module, linker_modules) ==
    [instructions |-> <<>>, errors |-> <<>>, is_declared_in_this_module |-> TRUE,
     local_variable_context |-> <<{}>>, module |-> module,
     linker_modules |-> linker_modules, panicked |-> FALSE]

\* FlatAlloc::alloc
alloc(ctx, instruction) ==
    [ctx |-> [ctx EXCEPT !.instructions = Append(@, instruction)],
     id |-> Len(ctx.instructions) + 1]

\* FlatAlloc::get_next_alloc_id
get_next_alloc_id(ctx) == Len(ctx.instructions) + 1

\* ErrorCollector::error_basic / error_with_info.  A span is the FlatID of the
\* instruction it covers (of a Write, the span of its target); the errors of
\* the walk over the syntax tree lie on syntax that is no instruction, span 0.
error(ctx, span, message) ==
    [ctx EXCEPT !.errors = Append(@, [level |-> "error", span |-> span,
                                      message |-> message])]
error_basic(ctx, message) == error(ctx, 0, message)

\* A panic of the flattening code (an extract_* on the wrong instruction).
Panic(ctx) == [ctx EXCEPT !.panicked = TRUE]

\* A panic of a failed assert!: the message of the panic follows the errors
\* collected so far.
assert_failed(ctx, message) ==
    [ctx EXCEPT !.panicked = TRUE,
                !.errors = Append(@, [level |-> "panic", span |-> 0, message |-> message])]

\* The message the process ended with.
panic_message(ctx) ==
    IF ctx.errors # <<>> /\ ctx.errors[Len(ctx.errors)].level = "panic"
    THEN ctx.errors[Len(ctx.errors)].message
    ELSE "panicked"

\* LocalVariableContext::get_declaration_for: innermost frame first.
RECURSIVE get_declaration_for(_, _)
get_declaration_for(local_variable_context, name) ==
    IF local_variable_context = <<>> THEN <<>>
    ELSE LET frame == local_variable_context[Len(local_variable_context)] IN
         IF \E p \in frame : p[1] = name
         THEN <<(CHOOSE p \in frame : p[1] = name)[2]>>
         ELSE get_declaration_for(
                 SubSeq(local_variable_context, 1, Len(local_variable_context) - 1), name)

\* LocalVariableContext::add_declaration: a duplicate in the innermost frame
\* fails with the earlier FlatID and leaves the frame as it is.
add_declaration(local_variable_context, name, id) ==
    LET n == Len(local_variable_context)
        frame == local_variable_context[n]
    IN IF \E p \in frame : p[1] = name
       THEN [local_variable_context |-> local_variable_context,
             conflict |-> <<(CHOOSE p \in frame : p[1] = name)[2]>>]
       ELSE [local_variable_context |->
                [local_variable_context EXCEPT ![n] = frame \cup {<<name, id>>}],
             conflict |-> <<>>]

\* LocalVariableContext::extend and the drop of the extended context.
extend(ctx) ==
    [ctx EXCEPT !.local_variable_context = Append(@, {})]
leave(ctx, outer) ==
    [ctx EXCEPT !.local_variable_context = outer.local_variable_context]

\* GlobalResolver::resolve_global: the global a name stands for, with a
\* "not found" error when there is none.
GlobalNameElem(name) ==
    CASE name \in Range(BUILTIN_TYPES) -> <<NameElem("Type", PositionIn(BUILTIN_TYPES, name))>>
      [] name \in Range(BUILTIN_CONSTANTS) ->
            <<NameElem("Constant", PositionIn(BUILTIN_CONSTANTS, name))>>
      [] name = "sub" -> <<NameElem("Module", 1)>>
      [] OTHER -> <<>>

resolve_global(ctx, name) ==
    [ctx |-> IF GlobalNameElem(name) = <<>>
             THEN error_basic(ctx, "No Global of this name found")
             ELSE ctx,
     name_elem |-> GlobalNameElem(name)]

\* ResolvedNameElem::expect_constant / expect_type / expect_module: the id
\* when the global is of the kind asked for, else None and, when it is a
\* global of another kind, an error.
expect_kind(resolved, kind) ==
    IF resolved.name_elem = <<>> THEN [ctx |-> resolved.ctx, id |-> <<>>]
    ELSE IF resolved.name_elem[1].kind = kind
    THEN [ctx |-> resolved.ctx, id |-> <<resolved.name_elem[1].id>>]
    ELSE [ctx |-> error_basic(resolved.ctx, "is not a " \o kind), id |-> <<>>]

\* InterfacePorts::func_call_syntax_inputs / func_call_syntax_outputs: the
\* positions of the input ports and of the output ports.
func_call_syntax_inputs(interface) ==
    [i \in 1..interface.outputs_start |-> i]
func_call_syntax_outputs(interface) ==
    [i \in 1..(Len(interface.ports) - interface.outputs_start) |->
        interface.outputs_start + i]

Declaration(typ_expr, is_declared_in_this_module, decl, read_only, is_free_standing_decl, latency_specifier) ==
    [kind |-> "Declaration", typ_expr |-> typ_expr, typ |-> to_type(typ_expr),
     is_declared_in_this_module |-> is_declared_in_this_module,
     name |-> decl.name, read_only |-> read_only,
     is_free_standing_decl |-> is_free_standing_decl,
     identifier_type |-> decl.identifier_type,
     latency_specifier |-> latency_specifier]

SubModuleInstance(module_uuid, name, is_declared_in_this_module, ports) ==
    [kind |-> "SubModule", module_uuid |-> module_uuid, name |-> name,
     is_declared_in_this_module |-> is_declared_in_this_module,
     interface_ports |-> ports]

\* FlatteningContext::resolve_identifier: Local(id) when the name is bound in
\* the local variable context, else the global of that name.
resolve_identifier(ctx, name) ==
    LET local == get_declaration_for(ctx.local_variable_context, name) IN
    IF local # <<>>
    THEN [ctx |-> ctx, local |-> local, name_elem |-> <<>>]
    ELSE [ctx |-> resolve_global(ctx, name).ctx, local |-> <<>>,
          name_elem |-> resolve_global(ctx, name).name_elem]

\* flatten_assignment_modifiers
flatten_assignment_modifiers(modifiers) ==
    CASE modifiers.kind = "LatencyAdding" ->
            [kind |-> "Connection", num_regs |-> modifiers.num_regs, regs_span |-> TRUE]
      [] modifiers.kind = "Initial" ->
            [kind |-> "Initial", num_regs |-> 0, regs_span |-> FALSE]
      [] modifiers.kind = "NoModifiers" ->
            [kind |-> "Connection", num_regs |-> 0, regs_span |-> FALSE]

\* A `let x = value;` of the code is written CHOOSE let \in {body : x \in {value}} :
\* TRUE, the one element of a set: value is computed once and body is given
\* the result.

RECURSIVE map_to_type(_, _)
RECURSIVE flatten_declaration(_, _, _, _, _)
RECURSIVE initialize_ports(_, _, _, _)
RECURSIVE alloc_module_interface(_, _, _)
RECURSIVE write_func_inputs(_, _, _, _)
RECURSIVE desugar_func_call(_, _)
RECURSIVE flatten_expr(_, _)
RECURSIVE flatten_assignable_expr(_, _)
RECURSIVE flatten_statements(_, _, _)
RECURSIVE write_func_outputs(_, _, _, _)

\* map_to_type (mod.rs:216-232)
map_to_type(ctx, type_expr) ==
    IF type_expr.kind = "Named"
    THEN (CHOOSE let \in {[ctx |-> typ_id.ctx,
          typ |-> IF typ_id.id # <<>> THEN WrittenType("Named", typ_id.id[1], <<>>)
                  ELSE WrittenType("Error", 0, <<>>)] : typ_id \in {expect_kind(resolve_global(ctx, type_expr.name), "Type")}} : TRUE)
    ELSE (CHOOSE let \in {(CHOOSE let \in {[ctx |-> array_size_wire_id.ctx,
          typ |-> WrittenType(array_element_type.typ.kind, array_element_type.typ.id,
                     Append(array_element_type.typ.sizes, array_size_wire_id.id))] : array_size_wire_id \in {flatten_expr(array_element_type.ctx, type_expr.size)}} : TRUE) : array_element_type \in {map_to_type(ctx, type_expr.content)}} : TRUE)

\* flatten_declaration, mod.rs:234-253: the type of the declaration; module
\* is the module the type names when ALLOW_MODULES, else None.
declaration_type(ctx, decl, ALLOW_MODULES) ==
    IF decl.typ.kind # "Named"
    THEN (CHOOSE let \in {[ctx |-> typ.ctx, typ |-> typ.typ, module |-> <<>>] : typ \in {map_to_type(ctx, decl.typ)}} : TRUE)
    ELSE (CHOOSE let \in {IF resolved.name_elem = <<>>
         THEN [ctx |-> resolved.ctx, typ |-> WrittenType("Error", 0, <<>>), module |-> <<>>]
         ELSE IF resolved.name_elem[1].kind = "Module" /\ ALLOW_MODULES
         THEN [ctx |-> resolved.ctx, typ |-> WrittenType("Error", 0, <<>>),
               module |-> <<resolved.name_elem[1].id>>]
         ELSE IF resolved.name_elem[1].kind = "Type"
         THEN [ctx |-> resolved.ctx,
               typ |-> WrittenType("Named", resolved.name_elem[1].id, <<>>),
               module |-> <<>>]
         ELSE [ctx |-> error_basic(resolved.ctx, "is not a Type"),
               typ |-> WrittenType("Error", 0, <<>>), module |-> <<>>] : resolved \in {resolve_global(ctx, decl.typ.name)}} : TRUE)

\* flatten_declaration (mod.rs:233-280)
flatten_declaration(ctx, decl, read_only, is_free_standing_decl, ALLOW_MODULES) ==
    (CHOOSE let \in {IF typ_expr.module # <<>>
    THEN alloc_module_interface(typ_expr.ctx, decl.name, typ_expr.module[1])
    ELSE
    (CHOOSE let \in {(CHOOSE let \in {(CHOOSE let \in {(CHOOSE let \in {[ctx |-> IF added.conflict # <<>>
             THEN error(bound, inst.id,
                     "This declaration conflicts with a previous declaration in the same scope")
             ELSE bound,
     id |-> inst.id] : bound \in {[inst.ctx EXCEPT !.local_variable_context = added.local_variable_context]}} : TRUE) : added \in {add_declaration(inst.ctx.local_variable_context, decl.name, inst.id)}} : TRUE) : inst \in {alloc(latency_spec.ctx,
               Declaration(typ_expr.typ, ctx.is_declared_in_this_module, decl,
                           read_only, is_free_standing_decl,
                           IF decl.latency_expr # <<>> THEN <<latency_spec.id>>
                           ELSE <<>>))}} : TRUE) : latency_spec \in {IF decl.latency_expr # <<>>
         THEN flatten_expr(typ_expr.ctx, decl.latency_expr[1])
         ELSE [ctx |-> typ_expr.ctx, id |-> PLACEHOLDER]}} : TRUE) : typ_expr \in {declaration_type(ctx, decl, ALLOW_MODULES)}} : TRUE)

port_read_only_Inputs(is_input, IS_SUBMODULE) == is_input

\* initialize_interface, mod.rs:294-295: let read_only = is_input ^ IS_SUBMODULE
port_read_only(is_input, IS_SUBMODULE) == is_input # IS_SUBMODULE

\* initialize_interface (mod.rs:292-300), from port idx on.
initialize_ports(ctx, IS_SUBMODULE, idx, ports) ==
    IF idx > Len(ctx.module.interface.ports)
    THEN [ctx |-> ctx,
          interface |-> [ports |-> ports,
                         outputs_start |-> ctx.module.interface.outputs_start]]
    ELSE LET is_input == idx <= ctx.module.interface.outputs_start
             read_only == port_read_only(is_input, IS_SUBMODULE)
         IN (CHOOSE let \in {(CHOOSE let \in {initialize_ports(port.ctx, IS_SUBMODULE, idx + 1, flattened_ports) : flattened_ports \in {Append(ports, port.id)}} : TRUE) : port \in {flatten_declaration(ctx, ctx.module.interface.ports[idx],
                                     read_only, TRUE, FALSE)}} : TRUE)

initialize_interface(ctx, IS_SUBMODULE) == initialize_ports(ctx, IS_SUBMODULE, 1, <<>>)

\* alloc_module_interface (mod.rs:301-325): the ports of the module are
\* declared by a nested context that shares the instructions and has errors,
\* local variables and module of its own.
alloc_module_interface(ctx, name, module_uuid) ==
    (CHOOSE let \in {(CHOOSE let \in {(CHOOSE let \in {alloc(self, SubModuleInstance(module_uuid, name, ctx.is_declared_in_this_module,
                                  nested.interface)) : self \in {[nested.ctx EXCEPT
             !.errors = ctx.errors,
             !.is_declared_in_this_module = ctx.is_declared_in_this_module,
             !.local_variable_context = ctx.local_variable_context,
             !.module = ctx.module]}} : TRUE) : nested \in {initialize_interface(nested_context, TRUE)}} : TRUE) : nested_context \in {[ctx EXCEPT !.errors = <<>>, !.is_declared_in_this_module = FALSE,
                     !.local_variable_context = <<{}>>,
                     !.module = ctx.linker_modules[module_uuid]]}} : TRUE)

\* desugar_func_call, mod.rs:367-371: zip(inputs, args) from position k on.
write_func_inputs(ctx, interface, args, k) ==
    IF k > Len(func_call_syntax_inputs(interface)) \/ k > Len(args) THEN ctx
    ELSE (CHOOSE let \in {(CHOOSE let \in {write_func_inputs(wr.ctx, interface, args, k + 1) : wr \in {alloc(arg_read_side.ctx,
                    Write([kind |-> "Connection", num_regs |-> 0, regs_span |-> FALSE],
                          arg_read_side.id,
                          ConnectionWrite(
                              interface.ports[func_call_syntax_inputs(interface)[k]],
                              <<>>, ctx.is_declared_in_this_module)))}} : TRUE) : arg_read_side \in {flatten_expr(ctx, args[k])}} : TRUE)

func_call_on_instance_ArgsUnchecked(ctx, func_instantiation_id, func_and_args) ==
    IF ctx.instructions[func_instantiation_id].kind # "SubModule"
    THEN [ctx |-> Panic(ctx), interface |-> <<>>]
    ELSE
    LET submodule_local_wires == ctx.instructions[func_instantiation_id].interface_ports
        args == Tail(func_and_args)
        expected_arg_count == Len(func_call_syntax_inputs(submodule_local_wires))
        used_args == IF Len(args) > expected_arg_count
                     THEN SubSeq(args, 1, expected_arg_count) ELSE args
    IN (CHOOSE let \in {[ctx |-> written, interface |-> <<submodule_local_wires>>] : written \in {write_func_inputs(ctx, submodule_local_wires, used_args, 1)}} : TRUE)

\* mod.rs:342-373: the rest of desugar_func_call once the instruction of the
\* called instance is known.
func_call_on_instance(ctx, func_instantiation_id, func_and_args) ==
    IF ctx.instructions[func_instantiation_id].kind # "SubModule"
    THEN [ctx |-> Panic(ctx), interface |-> <<>>]
    ELSE
    LET submodule_local_wires == ctx.instructions[func_instantiation_id].interface_ports
        args == Tail(func_and_args)
        arg_count == Len(args)
        expected_arg_count == Len(func_call_syntax_inputs(submodule_local_wires))
        checked ==
            IF arg_count = expected_arg_count THEN ctx
            ELSE IF arg_count > expected_arg_count
            THEN error_basic(ctx, "Excess argument")
            ELSE error_basic(ctx, "Too few arguments")
        used_args == IF arg_count > expected_arg_count
                     THEN SubSeq(args, 1, expected_arg_count) ELSE args
    IN (CHOOSE let \in {(CHOOSE let \in {[ctx |-> written, interface |-> <<submodule_local_wires>>] : written \in {write_func_inputs(self, submodule_local_wires, used_args, 1)}} : TRUE) : self \in {checked}} : TRUE)

\* desugar_func_call (mod.rs:327-374)
desugar_func_call(ctx, func_and_args) ==
    IF func_and_args[1].kind # "Named"
    THEN [ctx |-> error_basic(ctx, "Function call name must be a simple identifier"),
          interface |-> <<>>]
    ELSE
    (CHOOSE let \in {IF resolved.local # <<>>
    THEN func_call_on_instance(ctx, resolved.local[1], func_and_args)
    ELSE (CHOOSE let \in {IF module_id.id = <<>> THEN [ctx |-> module_id.ctx, interface |-> <<>>]
         ELSE (CHOOSE let \in {func_call_on_instance(inst.ctx, inst.id, func_and_args) : inst \in {alloc_module_interface(module_id.ctx,
                       ctx.linker_modules[module_id.id[1]].name, module_id.id[1])}} : TRUE) : module_id \in {expect_kind(resolved, "Module")}} : TRUE) : resolved \in {resolve_identifier(ctx, func_and_args[1].name)}} : TRUE)

\* A wire of the module under flattening (mod.rs:435-436).
alloc_wire(ctx, source) == alloc(ctx, WireInstance(source, ctx.is_declared_in_this_module))

\* flatten_expr (mod.rs:375-437)
flatten_expr(ctx, expr) ==
    CASE expr.kind = "Named" ->
            (CHOOSE let \in {IF resolved.local # <<>> THEN alloc_wire(ctx, WireRead(resolved.local[1]))
            ELSE (CHOOSE let \in {IF cst.id # <<>> THEN alloc_wire(cst.ctx, NamedConstant(cst.id[1]))
                 ELSE alloc_wire(cst.ctx, ConstantSource(ValueError)) : cst \in {expect_kind(resolved, "Constant")}} : TRUE) : resolved \in {resolve_identifier(ctx, expr.name)}} : TRUE)
      [] expr.kind = "Constant" -> alloc_wire(ctx, ConstantSource(expr.value))
      [] expr.kind = "UnaryOp" ->
            (CHOOSE let \in {alloc_wire(right.ctx, UnaryOpSource(expr.op, right.id)) : right \in {flatten_expr(ctx, expr.operate_on)}} : TRUE)
      [] expr.kind = "BinOp" ->
            (CHOOSE let \in {(CHOOSE let \in {alloc_wire(right.ctx, BinaryOpSource(expr.op, left.id, right.id)) : right \in {flatten_expr(left.ctx, expr.right)}} : TRUE) : left \in {flatten_expr(ctx, expr.left)}} : TRUE)
      [] expr.kind = "Array" ->
            (CHOOSE let \in {(CHOOSE let \in {alloc_wire(arr_idx.ctx, ArrayAccess(arr.id, arr_idx.id)) : arr_idx \in {flatten_expr(arr.ctx, expr.idx)}} : TRUE) : arr \in {flatten_expr(ctx, expr.arr)}} : TRUE)
      [] expr.kind = "FuncCall" ->
            (CHOOSE let \in {IF call.interface = <<>> THEN alloc_wire(call.ctx, ConstantSource(ValueError))
            ELSE LET interface_wires == call.interface[1]
                     output_range == func_call_syntax_outputs(interface_wires)
                 IN (CHOOSE let \in {IF Len(output_range) >= 1
                    THEN [ctx |-> checked, id |-> interface_wires.ports[output_range[1]]]
                    ELSE alloc_wire(checked, ConstantSource(ValueError)) : checked \in {IF Len(output_range) # 1
                         THEN error_basic(call.ctx,
                                 "A function called in this context may only return one result")
                         ELSE call.ctx}} : TRUE) : call \in {desugar_func_call(ctx, expr.func_and_args)}} : TRUE)

\* flatten_assignable_expr (mod.rs:438-462)
flatten_assignable_expr(ctx, expr) ==
    CASE expr.kind = "Named" ->
            (CHOOSE let \in {IF resolved.local # <<>>
            THEN [ctx |-> ctx,
                  write |-> <<ConnectionWrite(resolved.local[1], <<>>,
                                              ctx.is_declared_in_this_module)>>]
            ELSE [ctx |-> error_basic(resolved.ctx,
                             "Can only use local variables in assignments!"),
                  write |-> <<>>] : resolved \in {resolve_identifier(ctx, expr.name)}} : TRUE)
      [] expr.kind = "Array" ->
            (CHOOSE let \in {(CHOOSE let \in {IF flattened_arr_expr_opt.write = <<>>
            THEN [ctx |-> idx.ctx, write |-> <<>>]
            ELSE [ctx |-> idx.ctx,
                  write |-> <<[flattened_arr_expr_opt.write[1] EXCEPT
                                  !.path = Append(@, idx.id)]>>] : idx \in {flatten_expr(flattened_arr_expr_opt.ctx, expr.idx)}} : TRUE) : flattened_arr_expr_opt \in {flatten_assignable_expr(ctx, expr.arr)}} : TRUE)
      [] expr.kind = "Constant" ->
            [ctx |-> error_basic(ctx, "Cannot assign to constant"), write |-> <<>>]
      [] expr.kind \in {"UnaryOp", "BinOp"} ->
            [ctx |-> error_basic(ctx, "Cannot assign to the result of an operator"),
             write |-> <<>>]
      [] expr.kind = "FuncCall" ->
            [ctx |-> error_basic(ctx, "Cannot assign to submodule call"), write |-> <<>>]

\* flatten_left_expr (mod.rs:463-473)
flatten_left_expr(ctx, left, gets_assigned) ==
    IF left.kind = "Assignable" THEN flatten_assignable_expr(ctx, left.assignable)
    ELSE (CHOOSE let \in {[ctx |-> root.ctx, write |-> <<ConnectionWrite(root.id, <<>>, TRUE)>>] : root \in {flatten_declaration(ctx, left.decl, FALSE, ~gets_assigned, TRUE)}} : TRUE)

\* mod.rs:516-523: zip(outputs, to) from position k on.
write_func_outputs(ctx, outputs, to, k) ==
    IF k > Len(outputs) \/ k > Len(to) THEN ctx
    ELSE IF ctx.instructions[outputs[k]].kind # "Declaration" THEN Panic(ctx)
    ELSE (CHOOSE let \in {(CHOOSE let \in {IF write_side.write = <<>>
         THEN write_func_outputs(write_side.ctx, outputs, to, k + 1)
         ELSE (CHOOSE let \in {write_func_outputs(wr.ctx, outputs, to, k + 1) : wr \in {alloc(write_side.ctx,
                         Write(flatten_assignment_modifiers(to[k].modifiers),
                               module_port_proxy.id, write_side.write[1]))}} : TRUE) : write_side \in {flatten_left_expr(module_port_proxy.ctx, to[k].left, TRUE)}} : TRUE) : module_port_proxy \in {alloc_wire(ctx, WireRead(outputs[k]))}} : TRUE)

\* mod.rs:497-524: an assignment of a function call.
flatten_func_call_assign(ctx, stmt) ==
    (CHOOSE let \in {IF call.interface = <<>> THEN call.ctx
    ELSE LET interface == call.interface[1]
             output_range == func_call_syntax_outputs(interface)
             outputs == [i \in 1..Len(output_range) |-> interface.ports[output_range[i]]]
             num_func_outputs == Len(outputs)
             num_targets == Len(stmt.to)
         IN (CHOOSE let \in {(CHOOSE let \in {write_func_outputs(checked, output_ports, stmt.to, 1) : output_ports \in {outputs}} : TRUE) : checked \in {IF num_targets = num_func_outputs THEN call.ctx
                 ELSE IF num_targets > num_func_outputs
                 THEN error_basic(call.ctx, "Excess output targets")
                 ELSE error_basic(call.ctx, "Too few output targets")}} : TRUE) : call \in {desugar_func_call(ctx, stmt.rhs[1].func_and_args)}} : TRUE)

\* mod.rs:525-537: any other assignment.
flatten_assign(ctx, stmt) ==
    (CHOOSE let \in {IF Len(stmt.to) = 1
    THEN (CHOOSE let \in {IF write_side.write = <<>> THEN write_side.ctx
         ELSE IF stmt.rhs # <<>>
         THEN alloc(write_side.ctx,
                    Write(flatten_assignment_modifiers(stmt.to[1].modifiers),
                          read_side.id, write_side.write[1])).ctx
         ELSE write_side.ctx : write_side \in {flatten_left_expr(read_side.ctx, stmt.to[1].left, stmt.rhs # <<>>)}} : TRUE)
    ELSE error_basic(read_side.ctx,
                     "Non-function assignments must only output exactly 1") : read_side \in {IF stmt.rhs # <<>> THEN flatten_expr(ctx, stmt.rhs[1])
         ELSE [ctx |-> ctx, id |-> PLACEHOLDER]}} : TRUE)

fill_if_statement_ElseEndOnly(ctx, if_id, then_start, then_end_else_start, else_end) ==
    [ctx EXCEPT !.instructions[if_id].else_end = else_end]

\* mod.rs:554-557: the ranges of the IfStatement are filled in.
fill_if_statement(ctx, if_id, then_start, then_end_else_start, else_end) ==
    [ctx EXCEPT !.instructions[if_id].then_start = then_start,
                !.instructions[if_id].then_end_else_start = then_end_else_start,
                !.instructions[if_id].else_end = else_end]

\* mod.rs:573-575: the body range of the ForStatement is filled in.
fill_for_statement(ctx, for_id, code_start, code_end) ==
    [ctx EXCEPT !.instructions[for_id].loop_body = <<code_start, code_end>>]

\* flatten_code (mod.rs:482-493): the block is flattened in an extended
\* local variable context, which is dropped afterwards.
flatten_code(ctx, code) ==
    (CHOOSE let \in {(CHOOSE let \in {leave(flattened, ctx) : flattened \in {flatten_statements(inner_context, code, 1)}} : TRUE) : inner_context \in {extend(ctx)}} : TRUE)

\* mod.rs:541-558
flatten_if(ctx, stmt) ==
    (CHOOSE let \in {(CHOOSE let \in {(CHOOSE let \in {(CHOOSE let \in {fill_if_statement(after_else, if_stmt.id, get_next_alloc_id(if_stmt.ctx),
                      get_next_alloc_id(after_then), get_next_alloc_id(after_else)) : after_else \in {IF stmt.els # <<>> THEN flatten_code(after_then, stmt.els[1]) ELSE after_then}} : TRUE) : after_then \in {flatten_code(if_stmt.ctx, stmt.then)}} : TRUE) : if_stmt \in {alloc(condition.ctx,
               IfStatement(condition.id, PLACEHOLDER, PLACEHOLDER, PLACEHOLDER))}} : TRUE) : condition \in {flatten_expr(ctx, stmt.condition)}} : TRUE)

\* mod.rs:559-576
flatten_for(ctx, stmt) ==
    (CHOOSE let \in {(CHOOSE let \in {(CHOOSE let \in {(CHOOSE let \in {(CHOOSE let \in {fill_for_statement(after_code, for_stmt.id, get_next_alloc_id(for_stmt.ctx),
                       get_next_alloc_id(after_code)) : after_code \in {flatten_code(for_stmt.ctx, stmt.code)}} : TRUE) : for_stmt \in {alloc(end.ctx, ForStatement(loop_var_decl.id, start.id, end.id,
                                     <<PLACEHOLDER, PLACEHOLDER>>))}} : TRUE) : end \in {flatten_expr(start.ctx, stmt.to)}} : TRUE) : start \in {flatten_expr(loop_var_decl.ctx, stmt.from)}} : TRUE) : loop_var_decl \in {flatten_declaration(ctx, stmt.var, TRUE, TRUE, FALSE)}} : TRUE)

\* flatten_code_keep_context (mod.rs:494-579), from statement k on.
flatten_statements(ctx, code, k) ==
    IF k > Len(code) \/ ctx.panicked THEN ctx
    ELSE (CHOOSE let \in {flatten_statements(next, code, k + 1) : next \in {CASE code[k].kind = "Assign" ->
                     IF code[k].rhs # <<>> /\ code[k].rhs[1].kind = "FuncCall"
                     THEN flatten_func_call_assign(ctx, code[k])
                     ELSE flatten_assign(ctx, code[k])
                [] code[k].kind = "Block" -> flatten_code(ctx, code[k].code)
                [] code[k].kind = "If" -> flatten_if(ctx, code[k])
                [] code[k].kind = "For" -> flatten_for(ctx, code[k])}} : TRUE)

flatten_code_keep_context(ctx, code) == flatten_statements(ctx, code, 1)

(***************************************************************************)
(* Type checking: typing.rs and FlatteningContext::typecheck               *)
(***************************************************************************)
\* impl PartialEq for Type (typing.rs:18-26): Named types are equal when their
\* ids are, arrays when their contents are; Error and Unknown equal nothing.
type_eq(l, r) ==
    l.kind = "Named" /\ r.kind = "Named" /\ l.id = r.id /\ Len(l.sizes) = Len(r.sizes)

\* Type::to_string (typing.rs:30-44): "{error}", "{unknown}" or the name of
\* the type, followed by one "[]" for every array around it.
to_string(typ) == <<typ.kind, typ.id, Len(typ.sizes)>>

\* Type::for_each_generative_input (typing.rs:52-61): of an array, the size of
\* the outermost array; of any other type, nothing.
for_each_generative_input(typ) ==
    IF typ.sizes = <<>> THEN <<>> ELSE <<typ.sizes[Len(typ.sizes)]>>

\* Value::get_type_of_constant
get_type_of_constant(value) ==
    CASE value.kind = "Integer" -> INT_TYPE
      [] value.kind = "Bool" -> BOOL_TYPE
      [] OTHER -> Type("Error", 0, <<>>)

\* typing::typecheck (typing.rs:113-123): an error when found is not the
\* expected type; the assertion fails when the two still print the same.
typing_typecheck(ctx, found, span, expected, context) ==
    IF type_eq(expected, found) THEN ctx
    ELSE IF to_string(expected) = to_string(found)
    THEN assert_failed(error(ctx, span, "Typing Error: " \o context),
                       "assertion failed: expected_name != found_name")
    ELSE error(ctx, span, "Typing Error: " \o context)

\* typing::typecheck_is_array_indexer (typing.rs:124-131)
typecheck_is_array_indexer(ctx, arr_type, span) ==
    IF arr_type.sizes = <<>>
    THEN [ctx |-> error(ctx, span,
                        "Typing Error: Attempting to index into this, but it is not of array type"),
          typ |-> <<>>]
    ELSE [ctx |-> ctx,
          typ |-> <<Type(arr_type.kind, arr_type.id,
                         SubSeq(arr_type.sizes, 1, Len(arr_type.sizes) - 1))>>]

\* typing::typecheck_unary_operator (typing.rs:64-88)
typecheck_unary_operator(ctx, op, input_typ, span) ==
    CASE op = "!" ->
            [ctx |-> typing_typecheck(ctx, input_typ, span, BOOL_TYPE, "! input"),
             typ |-> BOOL_TYPE]
      [] op = "-" ->
            [ctx |-> typing_typecheck(ctx, input_typ, span, INT_TYPE, "- input"),
             typ |-> INT_TYPE]
      [] OTHER ->
            LET gather_type == IF op \in {"&", "|", "^"} THEN BOOL_TYPE ELSE INT_TYPE IN
            (CHOOSE let \in {[ctx |-> IF arr_content_typ.typ = <<>> THEN arr_content_typ.ctx
                     ELSE typing_typecheck(arr_content_typ.ctx, arr_content_typ.typ[1],
                                           span, gather_type, op \o " input"),
             typ |-> gather_type] : arr_content_typ \in {typecheck_is_array_indexer(ctx, input_typ, span)}} : TRUE)

\* typing::get_binary_operator_types (typing.rs:89-111)
get_binary_operator_types(op) ==
    CASE op \in {"&", "|", "^"} -> <<BOOL_TYPE, BOOL_TYPE, BOOL_TYPE>>
      [] op \in {"+", "-", "*", "/", "%"} -> <<INT_TYPE, INT_TYPE, INT_TYPE>>
      [] op \in {"==", "!=", ">=", "<=", ">", "<"} -> <<INT_TYPE, INT_TYPE, BOOL_TYPE>>

\* Instruction::extract_wire followed by typecheck_wire_is_of_type
\* (mod.rs:584-586): a panic when the instruction is not a Wire.
typecheck_wire_is_of_type(ctx, wire, expected, context) ==
    IF ctx.panicked THEN ctx
    ELSE IF ctx.instructions[wire].kind # "Wire" THEN Panic(ctx)
    ELSE typing_typecheck(ctx, ctx.instructions[wire].typ, wire, expected, context)

\* Instruction::extract_wire_declaration
is_wire_declaration(ctx, id) ==
    ctx.instructions[id].kind \in {"Declaration", "WireDeclaration"}

\* typecheck_connection, the loop over to.path from element k on
\* (mod.rs:592-602); write_to_type is None or the type reached so far.
RECURSIVE typecheck_write_path(_, _, _, _)
typecheck_write_path(ctx, to, k, write_to_type) ==
    IF k > Len(to.path) \/ ctx.panicked THEN [ctx |-> ctx, typ |-> write_to_type]
    ELSE (CHOOSE let \in {IF write_to_type = <<>> \/ checked.panicked
         THEN typecheck_write_path(checked, to, k + 1, write_to_type)
         ELSE (CHOOSE let \in {typecheck_write_path(element.ctx, to, k + 1, element.typ) : element \in {typecheck_is_array_indexer(checked, write_to_type[1], to.path[k])}} : TRUE) : checked \in {typecheck_wire_is_of_type(ctx, to.path[k], INT_TYPE, "array index")}} : TRUE)

\* typecheck_connection (mod.rs:588-609)
typecheck_connection(ctx, to, from) ==
    IF ~is_wire_declaration(ctx, to.root) THEN Panic(ctx)
    ELSE (CHOOSE let \in {IF target.ctx.panicked THEN target.ctx
         ELSE IF target.ctx.instructions[from].kind # "Wire" THEN Panic(target.ctx)
         ELSE IF target.typ = <<>> THEN target.ctx
         ELSE typecheck_wire_is_of_type(target.ctx, from, target.typ[1], "connection") : target \in {typecheck_write_path(ctx, to, 1, <<ctx.instructions[to.root].typ>>)}} : TRUE)

\* typecheck, Instruction::Wire (mod.rs:638-676): the type of the wire.
wire_result_typ(ctx, source) ==
    CASE source.kind = "WireRead" ->
            IF ~is_wire_declaration(ctx, source.operands[1])
            THEN [ctx |-> Panic(ctx), typ |-> Type("Error", 0, <<>>)]
            ELSE [ctx |-> ctx, typ |-> ctx.instructions[source.operands[1]].typ]
      [] source.kind = "UnaryOp" ->
            IF ctx.instructions[source.operands[1]].kind # "Wire"
            THEN [ctx |-> Panic(ctx), typ |-> Type("Error", 0, <<>>)]
            ELSE typecheck_unary_operator(ctx, source.op,
                                          ctx.instructions[source.operands[1]].typ,
                                          source.operands[1])
      [] source.kind = "BinaryOp" ->
            IF \E k \in 1..2 : ctx.instructions[source.operands[k]].kind # "Wire"
            THEN [ctx |-> Panic(ctx), typ |-> Type("Error", 0, <<>>)]
            ELSE (CHOOSE let \in {(CHOOSE let \in {[ctx |-> right_checked, typ |-> get_binary_operator_types(source.op)[3]] : right_checked \in {typecheck_wire_is_of_type(left_checked, source.operands[2],
                          get_binary_operator_types(source.op)[2], source.op \o " right")}} : TRUE) : left_checked \in {typecheck_wire_is_of_type(ctx, source.operands[1],
                          get_binary_operator_types(source.op)[1], source.op \o " left")}} : TRUE)
      [] source.kind = "ArrayAccess" ->
            IF \E k \in 1..2 : ctx.instructions[source.operands[k]].kind # "Wire"
            THEN [ctx |-> Panic(ctx), typ |-> Type("Error", 0, <<>>)]
            ELSE (CHOOSE let \in {(CHOOSE let \in {[ctx |-> element.ctx,
                  typ |-> IF element.typ # <<>> THEN element.typ[1]
                          ELSE Type("Error", 0, <<>>)] : element \in {typecheck_is_array_indexer(idx_checked,
                          ctx.instructions[source.operands[1]].typ, source.operands[1])}} : TRUE) : idx_checked \in {typecheck_wire_is_of_type(ctx, source.operands[2], INT_TYPE,
                                                "array index")}} : TRUE)
      [] source.kind = "Constant" ->
            [ctx |-> ctx, typ |-> get_type_of_constant(source.value)]
      [] source.kind = "NamedConstant" ->
            [ctx |-> ctx, typ |-> BOOL_TYPE]

\* typecheck, the body of the loop for one instruction (mod.rs:614-680).
typecheck_instruction(ctx, elem_id) ==
    LET instruction == ctx.instructions[elem_id] IN
    CASE instruction.kind = "SubModule" -> ctx
      [] instruction.kind \in {"Declaration", "WireDeclaration"} ->
            (CHOOSE let \in {IF for_each_generative_input(instruction.typ) = <<>> THEN latency_checked
            ELSE typecheck_wire_is_of_type(latency_checked,
                     for_each_generative_input(instruction.typ)[1], INT_TYPE, "Array size") : latency_checked \in {IF instruction.latency_specifier # <<>>
                 THEN typecheck_wire_is_of_type(ctx, instruction.latency_specifier[1],
                                                INT_TYPE, "latency specifier")
                 ELSE ctx}} : TRUE)
      [] instruction.kind = "IfStatement" ->
            typecheck_wire_is_of_type(ctx, instruction.condition, BOOL_TYPE,
                                      "if statement condition")
      [] instruction.kind = "ForStatement" ->
            IF ~is_wire_declaration(ctx, instruction.loop_var_decl) THEN Panic(ctx)
            ELSE IF \E w \in {instruction.start, instruction.end} :
                        ctx.instructions[w].kind # "Wire" THEN Panic(ctx)
            ELSE (CHOOSE let \in {typecheck_wire_is_of_type(start_checked, instruction.end,
                     ctx.instructions[instruction.loop_var_decl].typ, "for loop") : start_checked \in {typecheck_wire_is_of_type(ctx, instruction.start,
                          ctx.instructions[instruction.loop_var_decl].typ, "for loop")}} : TRUE)
      [] instruction.kind = "Wire" ->
            (CHOOSE let \in {[result_typ.ctx EXCEPT !.instructions[elem_id].typ = result_typ.typ] : result_typ \in {wire_result_typ(ctx, instruction.source)}} : TRUE)
      [] instruction.kind \in {"Write", "Connection"} ->
            typecheck_connection(ctx, instruction.to, instruction.from)

\* typecheck, the errors of the types that are still Unknown, in instruction
\* order.
unresolved_types(ctx) ==
    LET flagged == SelectSeq([id \in DOMAIN ctx.instructions |-> id], LAMBDA id :
            /\ ctx.instructions[id].kind \in {"Declaration", "WireDeclaration", "Wire"}
            /\ ctx.instructions[id].typ.kind = "Unknown")
    IN [ctx EXCEPT !.errors = @ \o [k \in DOMAIN flagged |->
           [level |-> "error", span |-> flagged[k], message |-> "Unresolved Type"]]]

\* typecheck, the loop over the instructions first..last in order (the range
\* is split in two halves, the first half before the second).
RECURSIVE typecheck_range(_, _, _)
typecheck_range(ctx, first, last) ==
    IF ctx.panicked \/ first > last THEN ctx
    ELSE IF first = last THEN typecheck_instruction(ctx, first)
    ELSE (CHOOSE let \in {typecheck_range(checked, (first + last) \div 2 + 1, last) : checked \in {typecheck_range(ctx, first, (first + last) \div 2)}} : TRUE)

\* typecheck, the loop over the instructions from elem_id on.
typecheck_from(ctx, elem_id) == typecheck_range(ctx, elem_id, Len(ctx.instructions))

\* FlatteningContext::typecheck
typecheck(ctx) ==
    (CHOOSE let \in {IF checked.panicked THEN checked ELSE unresolved_types(checked) : checked \in {typecheck_from(ctx, 1)}} : TRUE)

(***************************************************************************)
(* Generative code checking: FlatteningContext::generative_check           *)
(***************************************************************************)
\* IdentifierType::is_generative
is_generative(identifier_type) == identifier_type = "Generative"

\* Instruction::extract_wire followed by must_be_compiletime_with_info
\* (mod.rs:695-703): an error on the wire when it is not compile-time.
must_be_compiletime_with_info(ctx, wire, context) ==
    IF ctx.panicked THEN ctx
    ELSE IF ctx.instructions[wire].kind # "Wire" THEN Panic(ctx)
    ELSE IF ~ctx.instructions[wire].is_compiletime
    THEN error(ctx, wire, context \o " must be compile time")
    ELSE ctx

\* generative_check, mod.rs:711-716: the ifs that end at inst_id are popped.
RECURSIVE pop_ended_ifs(_, _)
pop_ended_ifs(runtime_if_stack, inst_id) ==
    IF runtime_if_stack # <<>> /\ runtime_if_stack[Len(runtime_if_stack)][1] = inst_id
    THEN pop_ended_ifs(SubSeq(runtime_if_stack, 1, Len(runtime_if_stack) - 1), inst_id)
    ELSE runtime_if_stack

\* generative_check, Instruction::Declaration (mod.rs:719-732) and
\* Instantiation::WireDeclaration (flattening.rs:643-652), which has no check
\* of the latency specifier.
generative_check_declaration(ctx, inst_id) ==
    LET decl == ctx.instructions[inst_id] IN
    (CHOOSE let \in {(CHOOSE let \in {IF for_each_generative_input(decl.typ) = <<>> THEN latency_checked
    ELSE must_be_compiletime_with_info(latency_checked,
             for_each_generative_input(decl.typ)[1], "Array size") : latency_checked \in {IF decl.kind = "Declaration" /\ decl.latency_specifier # <<>>
         THEN must_be_compiletime_with_info(declared, decl.latency_specifier[1],
                                            "Latency specifier")
         ELSE declared}} : TRUE) : declared \in {IF is_generative(decl.identifier_type)
         THEN IF ctx.declaration_depths[inst_id] # <<>> THEN Panic(ctx)
              ELSE [ctx EXCEPT !.declaration_depths[inst_id] = <<Len(ctx.runtime_if_stack)>>]
         ELSE ctx}} : TRUE)

\* generative_check, Instruction::Wire (mod.rs:733-750)
generative_check_wire(ctx, inst_id) ==
    LET source == ctx.instructions[inst_id].source IN
    IF source.kind = "WireRead"
    THEN IF ~is_wire_declaration(ctx, source.operands[1]) THEN Panic(ctx)
         ELSE [ctx EXCEPT !.instructions[inst_id].is_compiletime =
                  is_generative(ctx.instructions[source.operands[1]].identifier_type)]
    ELSE IF \E k \in DOMAIN source.operands :
               ctx.instructions[source.operands[k]].kind # "Wire"
    THEN Panic(ctx)
    ELSE [ctx EXCEPT !.instructions[inst_id].is_compiletime =
             \A k \in DOMAIN source.operands :
                 ctx.instructions[source.operands[k]].is_compiletime]

generative_check_connection_AnyRuntimeIf(ctx, inst_id) ==
    LET conn == ctx.instructions[inst_id]
        decl == ctx.instructions[conn.to.root]
    IN IF ~is_generative(decl.identifier_type) THEN ctx
       ELSE (CHOOSE let \in {IF Len(ctx.runtime_if_stack) > 0
            THEN error(checked, inst_id,
                       "Cannot write to generative variables in runtime conditional block")
            ELSE checked : checked \in {must_be_compiletime_with_info(ctx, conn.from,
                     "Assignments to generative variables")}} : TRUE)

\* generative_check, WriteType::Connection (mod.rs:760-777; flattening.rs:673-688)
generative_check_connection(ctx, inst_id) ==
    LET conn == ctx.instructions[inst_id]
        decl == ctx.instructions[conn.to.root]
    IN IF ~is_generative(decl.identifier_type) THEN ctx
       ELSE (CHOOSE let \in {IF ctx.declaration_depths[conn.to.root] = <<>> THEN Panic(checked)
            ELSE IF Len(ctx.runtime_if_stack) > ctx.declaration_depths[conn.to.root][1]
            THEN error(checked, inst_id,
                       "Cannot write to generative variables in runtime conditional block")
            ELSE checked : checked \in {must_be_compiletime_with_info(ctx, conn.from,
                     "Assignments to generative variables")}} : TRUE)

\* generative_check, WriteType::Initial, with generative targets accepted as well.
generative_check_initial_OrGenerative(ctx, inst_id) ==
    LET conn == ctx.instructions[inst_id]
        decl == ctx.instructions[conn.to.root]
    IN (CHOOSE let \in {must_be_compiletime_with_info(checked, conn.from, "initial value assignment") : checked \in {IF decl.identifier_type \notin {"State", "Generative"}
            THEN error(ctx, inst_id, "Initial values can only be given to state registers!")
            ELSE ctx}} : TRUE)

\* generative_check, WriteType::Initial (mod.rs:779-784)
generative_check_initial(ctx, inst_id) ==
    LET conn == ctx.instructions[inst_id]
        decl == ctx.instructions[conn.to.root]
    IN (CHOOSE let \in {must_be_compiletime_with_info(checked, conn.from, "initial value assignment") : checked \in {IF decl.identifier_type # "State"
            THEN error(ctx, inst_id, "Initial values can only be given to state registers!")
            ELSE ctx}} : TRUE)

\* generative_check, Instruction::Write (mod.rs:751-786)
generative_check_write(ctx, inst_id) ==
    LET conn == ctx.instructions[inst_id] IN
    IF ~is_wire_declaration(ctx, conn.to.root) THEN Panic(ctx)
    ELSE (CHOOSE let \in {IF ctx.instructions[conn.from].kind # "Wire" THEN Panic(checked)
         ELSE IF conn.write_type.kind = "Connection"
         THEN generative_check_connection(checked, inst_id)
         ELSE generative_check_initial(checked, inst_id) : checked \in {IF ctx.instructions[conn.to.root].read_only
              THEN error(ctx, inst_id, "Cannot Assign to Read-Only value")
              ELSE ctx}} : TRUE)

\* generative_check, Instruction::IfStatement (mod.rs:787-792)
generative_check_if(ctx, inst_id) ==
    LET if_stmt == ctx.instructions[inst_id] IN
    IF ctx.instructions[if_stmt.condition].kind # "Wire" THEN Panic(ctx)
    ELSE IF ~ctx.instructions[if_stmt.condition].is_compiletime
    THEN [ctx EXCEPT !.runtime_if_stack =
             Append(@, <<if_stmt.else_end, if_stmt.condition>>)]
    ELSE ctx

\* generative_check, Instantiation::Connection (flattening.rs:670-689): the
\* source is looked at only when the target is generative.
legacy_generative_check_connection(ctx, inst_id) ==
    IF ~is_wire_declaration(ctx, ctx.instructions[inst_id].to.root) THEN Panic(ctx)
    ELSE generative_check_connection(ctx, inst_id)

\* generative_check (mod.rs:705-795, flattening.rs:627-700): the body of the
\* loop for instruction inst_id.
generative_check_instruction(ctx, inst_id) ==
    (CHOOSE let \in {CASE popped.instructions[inst_id].kind \in {"Declaration", "WireDeclaration"} ->
            generative_check_declaration(popped, inst_id)
      [] popped.instructions[inst_id].kind = "Wire" ->
            generative_check_wire(popped, inst_id)
      [] popped.instructions[inst_id].kind = "Write" ->
            generative_check_write(popped, inst_id)
      [] popped.instructions[inst_id].kind = "Connection" ->
            legacy_generative_check_connection(popped, inst_id)
      [] popped.instructions[inst_id].kind = "IfStatement" ->
            generative_check_if(popped, inst_id)
      [] OTHER -> popped : popped \in {[ctx EXCEPT !.runtime_if_stack = pop_ended_ifs(@, inst_id)]}} : TRUE)

\* generative_check, the loop over the instructions first..last in order (the
\* range is split in two halves, the first half before the second).
RECURSIVE generative_check_range(_, _, _)
generative_check_range(ctx, first, last) ==
    IF ctx.panicked \/ first > last THEN ctx
    ELSE IF first = last THEN generative_check_instruction(ctx, first)
    ELSE (CHOOSE let \in {generative_check_range(checked, (first + last) \div 2 + 1, last) : checked \in {generative_check_range(ctx, first, (first + last) \div 2)}} : TRUE)

generative_check_from(ctx, inst_id) ==
    generative_check_range(ctx, inst_id, Len(ctx.instructions))

generative_check(ctx) ==
    (CHOOSE let \in {(CHOOSE let \in {[instructions |-> checked.instructions, errors |-> checked.errors,
     panicked |-> checked.panicked] : checked \in {generative_check_from(context, 1)}} : TRUE) : context \in {[instructions |-> ctx.instructions, errors |-> ctx.errors,
          panicked |-> ctx.panicked, runtime_if_stack |-> <<>>,
          declaration_depths |-> [id \in DOMAIN ctx.instructions |-> <<>>]]}} : TRUE)

(***************************************************************************)
(* Additional warnings: FlatteningContext::find_unused_variables           *)
(***************************************************************************)
\* InterfacePorts::inputs, InterfacePorts::outputs
interface_inputs(interface) == {interface.ports[i] : i \in 1..interface.outputs_start}
interface_outputs(interface) ==
    {interface.ports[i] : i \in (interface.outputs_start + 1)..Len(interface.ports)}

\* find_unused_variables, mod.rs:802-833; flattening.rs:707-735, 751-765: the instructions item depends on.
instance_fanins(instrs, item) ==
    {instrs[i].from : i \in {w \in DOMAIN instrs :
        instrs[w].kind \in {"Write", "Connection"} /\ instrs[w].to.root = item}}
    \cup {sm \in DOMAIN instrs : instrs[sm].kind = "SubModule"
                                 /\ item \in interface_outputs(instrs[sm].interface_ports)}
    \cup (IF instrs[item].kind = "SubModule" THEN interface_inputs(instrs[item].interface_ports)
          ELSE IF instrs[item].kind \in {"Declaration", "WireDeclaration"}
          THEN Range(for_each_generative_input(instrs[item].typ))
          ELSE IF instrs[item].kind = "Wire" THEN Range(instrs[item].source.operands)
          ELSE {})
    \cup {instrs[s].condition : s \in {stm \in DOMAIN instrs :
        /\ instrs[stm].kind = "IfStatement"
        /\ \E id \in instrs[stm].then_start..(instrs[stm].else_end - 1) :
              instrs[id].kind \in {"Write", "Connection"} /\ instrs[id].to.root = item}}
    \cup UNION {{instrs[s].start, instrs[s].end} : s \in {stm \in DOMAIN instrs :
        instrs[stm].kind = "ForStatement" /\ instrs[stm].loop_var_decl = item}}

\* find_unused_variables, mod.rs:835-851: everything the output ports depend on.
RECURSIVE is_instance_used_map(_, _)
is_instance_used_map(instrs, used) ==
    (CHOOSE let \in {IF explored = used THEN used ELSE is_instance_used_map(instrs, explored) : explored \in {used \cup UNION {instance_fanins(instrs, item) : item \in used}}} : TRUE)

\* find_unused_variables, mod.rs:853-862; flattening.rs:770-779: the warnings,
\* in instruction order.
warn_unused(ctx, used) ==
    LET unused == SelectSeq([id \in DOMAIN ctx.instructions |-> id], LAMBDA id :
            /\ id \notin used
            /\ \/ /\ ctx.instructions[id].kind = "Declaration"
                  /\ ctx.instructions[id].is_declared_in_this_module
               \/ /\ ctx.instructions[id].kind = "WireDeclaration"
                  /\ ~ctx.instructions[id].is_remote_declaration)
    IN [ctx EXCEPT !.errors = @ \o [k \in DOMAIN unused |->
           [level |-> "warning", span |-> unused[k],
            message |-> "Unused Variable: This variable does not affect the output ports of this module"]]]

find_unused_variables(ctx, interface) ==
    IF ctx.panicked THEN ctx
    ELSE (CHOOSE let \in {warn_unused(ctx, used) : used \in {is_instance_used_map(ctx.instructions, interface_outputs(interface))}} : TRUE)

\* FlattenedModule::flatten (mod.rs:899-927)
flatten(linker_modules, module) ==
    (CHOOSE let \in {(CHOOSE let \in {(CHOOSE let \in {(CHOOSE let \in {(CHOOSE let \in {(CHOOSE let \in {[instructions |-> warned.instructions, errors |-> warned.errors,
     interface_ports |-> ports.interface, panicked |-> warned.panicked] : warned \in {find_unused_variables(checked, ports.interface)}} : TRUE) : checked \in {generative_check(typechecked)}} : TRUE) : typechecked \in {typecheck(flattened)}} : TRUE) : flattened \in {flatten_code(ports.ctx, module.code)}} : TRUE) : ports \in {initialize_interface(context, FALSE)}} : TRUE) : context \in {FlatteningContext(module, linker_modules)}} : TRUE)

(***************************************************************************)
(* Flattening: flattening.rs, whose syntax tree carries the declarations   *)
(* in an arena (DeclID) and has the local names resolved by the parser     *)
(***************************************************************************)
Local(decl_id) == [kind |-> "Local", decl_id |-> decl_id]
GlobalRef(name) == [kind |-> "Global", name |-> name]
DeclarationStatement(decl_id) == [kind |-> "Declaration", decl_id |-> decl_id]
AssignableNamed(local_idx) == [kind |-> "Named", local_idx |-> local_idx]
AssignableArrayIndex(arr, idx) == [kind |-> "ArrayIndex", arr |-> arr, idx |-> idx]
LegacyAssignTo(expr, num_regs) == [assignable |-> expr, num_regs |-> num_regs]

WireDeclaration(typ, is_remote_declaration, decl, read_only, latency_specifier) ==
    [kind |-> "WireDeclaration", typ |-> typ,
     is_remote_declaration |-> is_remote_declaration, name |-> decl.name,
     read_only |-> read_only, identifier_type |-> decl.identifier_type,
     latency_specifier |-> latency_specifier]

Connection(num_regs, from, to) ==
    [kind |-> "Connection", num_regs |-> num_regs, from |-> from, to |-> to]

LegacyWire(ctx, source) ==
    [kind |-> "Wire", typ |-> Type("Unknown", 0, <<>>), source |-> source,
     is_compiletime |-> FALSE,
     is_remote_declaration |-> ctx.is_remote_declaration]

LegacyContext(module, linker_modules) ==
    [instantiations |-> <<>>, errors |-> <<>>, is_remote_declaration |-> FALSE,
     decl_to_flat_map |-> [d \in 1..Len(module.declarations) |-> <<>>],
     module |-> module, linker_modules |-> linker_modules, panicked |-> FALSE]

legacy_alloc(ctx, instantiation) ==
    [ctx |-> [ctx EXCEPT !.instantiations = Append(@, instantiation)],
     id |-> <<Len(ctx.instantiations) + 1>>]

legacy_next_alloc_id(ctx) == Len(ctx.instantiations) + 1

None(ctx) == [ctx |-> ctx, id |-> <<>>]

RECURSIVE legacy_map_to_type(_, _)
RECURSIVE legacy_flatten_declaration(_, _, _, _)
RECURSIVE legacy_initialize_ports(_, _, _, _)
RECURSIVE legacy_alloc_module_interface(_, _, _)
RECURSIVE legacy_write_func_inputs(_, _, _, _)
RECURSIVE legacy_desugar_func_call(_, _)
RECURSIVE legacy_flatten_expr(_, _)
RECURSIVE legacy_flatten_assignable_expr(_, _)
RECURSIVE legacy_flatten_code_from(_, _, _)
RECURSIVE legacy_write_func_outputs(_, _, _, _)

\* map_to_type (flattening.rs:185-204)
legacy_map_to_type(ctx, type_expr) ==
    IF type_expr.kind = "Named"
    THEN (CHOOSE let \in {[ctx |-> typ_id.ctx,
          typ |-> IF typ_id.id # <<>> THEN WrittenType("Named", typ_id.id[1], <<>>)
                  ELSE WrittenType("Error", 0, <<>>)] : typ_id \in {expect_kind(resolve_global(ctx, type_expr.name), "Type")}} : TRUE)
    ELSE (CHOOSE let \in {(CHOOSE let \in {[ctx |-> array_size_wire_id.ctx,
          typ |-> IF array_size_wire_id.id # <<>>
                  THEN WrittenType(array_element_type.typ.kind,
                                   array_element_type.typ.id,
                                   Append(array_element_type.typ.sizes,
                                          array_size_wire_id.id[1]))
                  ELSE WrittenType("Error", 0, <<>>)] : array_size_wire_id \in {legacy_flatten_expr(array_element_type.ctx, type_expr.size)}} : TRUE) : array_element_type \in {legacy_map_to_type(ctx, type_expr.content)}} : TRUE)

\* flatten_declaration, flattening.rs:208-226: the type of the declaration;
\* module is the module the type names when ALLOW_MODULES, else None.
legacy_declaration_type(ctx, decl, ALLOW_MODULES) ==
    IF decl.typ.kind # "Named"
    THEN (CHOOSE let \in {[ctx |-> typ.ctx, typ |-> typ.typ, module |-> <<>>] : typ \in {legacy_map_to_type(ctx, decl.typ)}} : TRUE)
    ELSE (CHOOSE let \in {IF resolved.name_elem = <<>>
         THEN [ctx |-> resolved.ctx, typ |-> WrittenType("Error", 0, <<>>), module |-> <<>>]
         ELSE IF resolved.name_elem[1].kind = "Module" /\ ALLOW_MODULES
         THEN [ctx |-> resolved.ctx, typ |-> WrittenType("Error", 0, <<>>),
               module |-> <<resolved.name_elem[1].id>>]
         ELSE IF resolved.name_elem[1].kind = "Type"
         THEN [ctx |-> resolved.ctx,
               typ |-> WrittenType("Named", resolved.name_elem[1].id, <<>>),
               module |-> <<>>]
         ELSE [ctx |-> error_basic(resolved.ctx, "is not a Type"),
               typ |-> WrittenType("Error", 0, <<>>), module |-> <<>>] : resolved \in {resolve_global(ctx, decl.typ.name)}} : TRUE)

\* must_be_compiletime of the latency specifier (flattening.rs:232, 618-626)
must_be_compiletime(ctx, latency_spec) ==
    IF latency_spec = <<>> THEN ctx
    ELSE IF ctx.instantiations[latency_spec[1]].kind # "Wire" THEN Panic(ctx)
    ELSE IF ~ctx.instantiations[latency_spec[1]].is_compiletime
    THEN error(ctx, latency_spec[1], "Latency specifier must be compile time")
    ELSE ctx

\* flatten_declaration (flattening.rs:205-254)
legacy_flatten_declaration(ctx, decl_id, read_only, ALLOW_MODULES) ==
    (CHOOSE let \in {IF typ.module # <<>>
    THEN legacy_alloc_module_interface(typ.ctx, ctx.module.declarations[decl_id].name,
                                       typ.module[1])
    ELSE
    (CHOOSE let \in {(CHOOSE let \in {(CHOOSE let \in {[ctx |-> [inst.ctx EXCEPT !.decl_to_flat_map[decl_id] = inst.id], id |-> inst.id] : inst \in {legacy_alloc(checked,
             WireDeclaration(typ.typ, ctx.is_remote_declaration,
                             ctx.module.declarations[decl_id], read_only,
                             latency_spec.id))}} : TRUE) : checked \in {must_be_compiletime(latency_spec.ctx, latency_spec.id)}} : TRUE) : latency_spec \in {IF ctx.module.declarations[decl_id].latency_expr # <<>>
         THEN legacy_flatten_expr(typ.ctx, ctx.module.declarations[decl_id].latency_expr[1])
         ELSE None(typ.ctx)}} : TRUE) : typ \in {legacy_declaration_type(ctx, ctx.module.declarations[decl_id], ALLOW_MODULES)}} : TRUE)

\* initialize_interface (flattening.rs:255-261), from port idx on.
legacy_initialize_ports(ctx, IS_SUBMODULE, idx, ports) ==
    IF idx > Len(ctx.module.ports.ports)
    THEN [ctx |-> ctx,
          interface |-> [ports |-> ports, outputs_start |-> ctx.module.ports.outputs_start]]
    ELSE LET is_input == idx <= ctx.module.ports.outputs_start IN
         (CHOOSE let \in {(CHOOSE let \in {legacy_initialize_ports(port.ctx, IS_SUBMODULE, idx + 1, flattened_ports) : flattened_ports \in {Append(ports, port.id[1])}} : TRUE) : port \in {legacy_flatten_declaration(ctx, ctx.module.ports.ports[idx],
                                         is_input # IS_SUBMODULE, FALSE)}} : TRUE)

legacy_initialize_interface(ctx, IS_SUBMODULE) ==
    legacy_initialize_ports(ctx, IS_SUBMODULE, 1, <<>>)

\* alloc_module_interface (flattening.rs:262-284)
legacy_alloc_module_interface(ctx, name, module_uuid) ==
    (CHOOSE let \in {(CHOOSE let \in {(CHOOSE let \in {legacy_alloc(self, [kind |-> "SubModule", module_uuid |-> module_uuid,
                        name |-> name,
                        is_remote_declaration |-> ctx.is_remote_declaration,
                        interface_ports |-> nested.interface]) : self \in {[nested.ctx EXCEPT
             !.errors = ctx.errors,
             !.is_remote_declaration = ctx.is_remote_declaration,
             !.decl_to_flat_map = ctx.decl_to_flat_map,
             !.module = ctx.module]}} : TRUE) : nested \in {legacy_initialize_interface(nested_context, TRUE)}} : TRUE) : nested_context \in {[ctx EXCEPT
             !.errors = <<>>, !.is_remote_declaration = TRUE,
             !.decl_to_flat_map =
                 [d \in 1..Len(ctx.linker_modules[module_uuid].declarations) |-> <<>>],
             !.module = ctx.linker_modules[module_uuid]]}} : TRUE)

\* The zip loop of desugar_func_call (flattening.rs:327-335), from argument k.
legacy_write_func_inputs(ctx, interface, args, k) ==
    IF k > Len(func_call_syntax_inputs(interface)) \/ k > Len(args) THEN ctx
    ELSE (CHOOSE let \in {(CHOOSE let \in {legacy_write_func_inputs(written, interface, args, k + 1) : written \in {IF arg_read_side.id = <<>> THEN arg_read_side.ctx
              ELSE legacy_alloc(arg_read_side.ctx,
                      Connection(0, arg_read_side.id[1],
                          [root |-> interface.ports[func_call_syntax_inputs(interface)[k]],
                           path |-> <<>>,
                           is_remote_declaration |-> ctx.is_remote_declaration])).ctx}} : TRUE) : arg_read_side \in {legacy_flatten_expr(ctx, args[k])}} : TRUE)

\* desugar_func_call, flattening.rs:302-337: the rest of it once the
\* instantiation of the called instance is known.
legacy_func_call_on_instance(ctx, func_instantiation_id, func_and_args) ==
    IF ctx.instantiations[func_instantiation_id].kind # "SubModule"
    THEN [ctx |-> Panic(ctx), interface |-> <<>>]
    ELSE
    LET submodule_local_wires == ctx.instantiations[func_instantiation_id].interface_ports
        args == Tail(func_and_args)
        arg_count == Len(args)
        expected_arg_count == Len(func_call_syntax_inputs(submodule_local_wires))
        counted == IF arg_count > expected_arg_count
                   THEN error_basic(ctx, "Excess argument")
                   ELSE IF arg_count < expected_arg_count
                   THEN error_basic(ctx, "Too few arguments")
                   ELSE ctx
    IN (CHOOSE let \in {(CHOOSE let \in {[ctx |-> written, interface |-> <<submodule_local_wires>>] : written \in {legacy_write_func_inputs(self, submodule_local_wires, args, 1)}} : TRUE) : self \in {counted}} : TRUE)

\* desugar_func_call (flattening.rs:286-338)
legacy_desugar_func_call(ctx, func_and_args) ==
    CASE func_and_args[1].kind = "Local" ->
            IF ctx.decl_to_flat_map[func_and_args[1].decl_id] = <<>>
            THEN [ctx |-> Panic(ctx), interface |-> <<>>]
            ELSE legacy_func_call_on_instance(
                    ctx, ctx.decl_to_flat_map[func_and_args[1].decl_id][1], func_and_args)
      [] func_and_args[1].kind = "Global" ->
            (CHOOSE let \in {IF module_id.id = <<>> THEN [ctx |-> module_id.ctx, interface |-> <<>>]
            ELSE (CHOOSE let \in {legacy_func_call_on_instance(inst.ctx, inst.id[1], func_and_args) : inst \in {legacy_alloc_module_interface(module_id.ctx,
                          ctx.linker_modules[module_id.id[1]].name, module_id.id[1])}} : TRUE) : module_id \in {expect_kind(resolve_global(ctx, func_and_args[1].name), "Module")}} : TRUE)
      [] OTHER ->
            [ctx |-> error_basic(ctx, "Function call name cannot be an expression"),
             interface |-> <<>>]

\* A wire (flattening.rs:384-385).
legacy_alloc_wire(ctx, source) == legacy_alloc(ctx, LegacyWire(ctx, source))

\* flatten_expr (flattening.rs:339-386)
legacy_flatten_expr(ctx, expr) ==
    CASE expr.kind = "Local" ->
            IF ctx.decl_to_flat_map[expr.decl_id] = <<>> THEN None(Panic(ctx))
            ELSE legacy_alloc_wire(ctx, WireRead(ctx.decl_to_flat_map[expr.decl_id][1]))
      [] expr.kind = "Global" ->
            (CHOOSE let \in {IF cst.id = <<>> THEN None(cst.ctx)
            ELSE legacy_alloc_wire(cst.ctx, NamedConstant(cst.id[1])) : cst \in {expect_kind(resolve_global(ctx, expr.name), "Constant")}} : TRUE)
      [] expr.kind = "Constant" -> legacy_alloc_wire(ctx, ConstantSource(expr.value))
      [] expr.kind = "UnaryOp" ->
            (CHOOSE let \in {IF right.id = <<>> THEN right
            ELSE legacy_alloc_wire(right.ctx, UnaryOpSource(expr.op, right.id[1])) : right \in {legacy_flatten_expr(ctx, expr.operate_on)}} : TRUE)
      [] expr.kind = "BinOp" ->
            (CHOOSE let \in {IF left.id = <<>> THEN left
            ELSE (CHOOSE let \in {IF right.id = <<>> THEN right
                 ELSE legacy_alloc_wire(right.ctx, BinaryOpSource(expr.op, left.id[1], right.id[1])) : right \in {legacy_flatten_expr(left.ctx, expr.right)}} : TRUE) : left \in {legacy_flatten_expr(ctx, expr.left)}} : TRUE)
      [] expr.kind = "Array" ->
            (CHOOSE let \in {IF arr.id = <<>> THEN arr
            ELSE (CHOOSE let \in {IF arr_idx.id = <<>> THEN arr_idx
                 ELSE legacy_alloc_wire(arr_idx.ctx, ArrayAccess(arr.id[1], arr_idx.id[1])) : arr_idx \in {legacy_flatten_expr(arr.ctx, expr.idx)}} : TRUE) : arr \in {legacy_flatten_expr(ctx, expr.arr)}} : TRUE)
      [] expr.kind = "FuncCall" ->
            (CHOOSE let \in {IF call.interface = <<>> THEN None(call.ctx)
            ELSE IF Len(func_call_syntax_outputs(call.interface[1])) # 1
            THEN None(error_basic(call.ctx,
                        "A function called in this context may only return one result"))
            ELSE [ctx |-> call.ctx,
                  id |-> <<call.interface[1].ports[
                              func_call_syntax_outputs(call.interface[1])[1]]>>] : call \in {legacy_desugar_func_call(ctx, expr.func_and_args)}} : TRUE)

\* flatten_assignable_expr (flattening.rs:387-413); to is None or the write.
legacy_flatten_assignable_expr(ctx, expr) ==
    IF expr.kind = "Named"
    THEN IF ctx.decl_to_flat_map[expr.local_idx] = <<>>
         THEN [ctx |-> Panic(ctx), to |-> <<>>]
         ELSE LET root == ctx.decl_to_flat_map[expr.local_idx][1]
                  decl == ctx.instantiations[root]
              IN IF decl.kind # "WireDeclaration" THEN [ctx |-> Panic(ctx), to |-> <<>>]
                 ELSE IF decl.read_only
                 THEN [ctx |-> error_basic(ctx, "Cannot Assign to Read-Only value"),
                       to |-> <<>>]
                 ELSE [ctx |-> ctx,
                       to |-> <<[root |-> root, path |-> <<>>,
                                 is_remote_declaration |-> ctx.is_remote_declaration]>>]
    ELSE (CHOOSE let \in {(CHOOSE let \in {IF idx.id = <<>> \/ flattened_arr_expr_opt.to = <<>>
         THEN [ctx |-> idx.ctx, to |-> <<>>]
         ELSE [ctx |-> idx.ctx,
               to |-> <<[flattened_arr_expr_opt.to[1] EXCEPT
                             !.path = Append(@, idx.id[1])]>>] : idx \in {legacy_flatten_expr(flattened_arr_expr_opt.ctx, expr.idx)}} : TRUE) : flattened_arr_expr_opt \in {legacy_flatten_assignable_expr(ctx, expr.arr)}} : TRUE)

\* The zip loop of flattening.rs:439-446, from output k.
legacy_write_func_outputs(ctx, outputs, to, k) ==
    IF k > Len(outputs) \/ k > Len(to) THEN ctx
    ELSE (CHOOSE let \in {IF write_side.to = <<>>
         THEN legacy_write_func_outputs(write_side.ctx, outputs, to, k + 1)
         ELSE IF write_side.ctx.instantiations[outputs[k]].kind # "WireDeclaration"
         THEN Panic(write_side.ctx)
         ELSE (CHOOSE let \in {(CHOOSE let \in {legacy_write_func_outputs(connection.ctx, outputs, to, k + 1) : connection \in {legacy_alloc(module_port_proxy.ctx,
                                Connection(to[k].num_regs, module_port_proxy.id[1],
                                           write_side.to[1]))}} : TRUE) : module_port_proxy \in {legacy_alloc_wire(write_side.ctx, WireRead(outputs[k]))}} : TRUE) : write_side \in {legacy_flatten_assignable_expr(ctx, to[k].assignable)}} : TRUE)

\* Statement::Assign of a function call (flattening.rs:420-447)
legacy_flatten_func_call_assign(ctx, stmt) ==
    (CHOOSE let \in {IF call.interface = <<>> THEN call.ctx
    ELSE LET interface == call.interface[1]
             output_range == func_call_syntax_outputs(interface)
             outputs == [i \in 1..Len(output_range) |-> interface.ports[output_range[i]]]
             num_func_outputs == Len(outputs)
             num_targets == Len(stmt.to)
         IN (CHOOSE let \in {(CHOOSE let \in {legacy_write_func_outputs(checked, output_ports, stmt.to, 1) : output_ports \in {outputs}} : TRUE) : checked \in {IF num_targets = num_func_outputs THEN call.ctx
                 ELSE IF num_targets > num_func_outputs
                 THEN error_basic(call.ctx, "Excess output targets")
                 ELSE error_basic(call.ctx, "Too few output targets")}} : TRUE) : call \in {legacy_desugar_func_call(ctx, stmt.rhs.func_and_args)}} : TRUE)

\* Statement::Assign of any other expression (flattening.rs:448-457)
legacy_flatten_assign(ctx, stmt) ==
    IF Len(stmt.to) = 1
    THEN (CHOOSE let \in {IF read_side.id = <<>> THEN read_side.ctx
         ELSE (CHOOSE let \in {IF write_side.to = <<>> THEN write_side.ctx
              ELSE legacy_alloc(write_side.ctx,
                                Connection(stmt.to[1].num_regs, read_side.id[1],
                                           write_side.to[1])).ctx : write_side \in {legacy_flatten_assignable_expr(read_side.ctx, stmt.to[1].assignable)}} : TRUE) : read_side \in {legacy_flatten_expr(ctx, stmt.rhs)}} : TRUE)
    ELSE error_basic(ctx, "Non-function assignments must only output exactly 1")

\* Statement::If (flattening.rs:461-478)
legacy_flatten_if(ctx, stmt) ==
    (CHOOSE let \in {IF condition.id = <<>> THEN condition.ctx
    ELSE
    (CHOOSE let \in {(CHOOSE let \in {(CHOOSE let \in {[after_else EXCEPT
        !.instantiations[if_id.id[1]].then_start = legacy_next_alloc_id(if_id.ctx),
        !.instantiations[if_id.id[1]].then_end_else_start = legacy_next_alloc_id(after_then),
        !.instantiations[if_id.id[1]].else_end = legacy_next_alloc_id(after_else)] : after_else \in {IF stmt.els # <<>> THEN legacy_flatten_code_from(after_then, stmt.els[1], 1)
         ELSE after_then}} : TRUE) : after_then \in {legacy_flatten_code_from(if_id.ctx, stmt.then, 1)}} : TRUE) : if_id \in {legacy_alloc(condition.ctx,
             IfStatement(condition.id[1], PLACEHOLDER, PLACEHOLDER, PLACEHOLDER))}} : TRUE) : condition \in {legacy_flatten_expr(ctx, stmt.condition)}} : TRUE)

\* Statement::For (flattening.rs:479-502)
legacy_flatten_for(ctx, stmt) ==
    (CHOOSE let \in {(CHOOSE let \in {(CHOOSE let \in {(CHOOSE let \in {(CHOOSE let \in {IF for_id.id # <<>>
    THEN [after_code EXCEPT
             !.instantiations[for_id.id[1]].loop_body =
                 <<legacy_next_alloc_id(for_id.ctx), legacy_next_alloc_id(after_code)>>]
    ELSE after_code : after_code \in {legacy_flatten_code_from(for_id.ctx, stmt.code, 1)}} : TRUE) : for_id \in {IF start.id # <<>> /\ end.id # <<>>
         THEN legacy_alloc(end.ctx,
                 ForStatement(loop_var_decl.id[1], start.id[1], end.id[1],
                              <<PLACEHOLDER, PLACEHOLDER>>))
         ELSE None(end.ctx)}} : TRUE) : end \in {legacy_flatten_expr(start.ctx, stmt.range.to)}} : TRUE) : start \in {legacy_flatten_expr(loop_var_decl.ctx, stmt.range.from)}} : TRUE) : loop_var_decl \in {legacy_flatten_declaration(ctx, stmt.var, TRUE, FALSE)}} : TRUE)

\* flatten_code (flattening.rs:414-505), from statement k of the block.
legacy_flatten_code_from(ctx, code, k) ==
    IF k > Len(code) \/ ctx.panicked THEN ctx
    ELSE (CHOOSE let \in {legacy_flatten_code_from(done, code, k + 1) : done \in {CASE code[k].kind = "Declaration" ->
                     legacy_flatten_declaration(ctx, code[k].decl_id, FALSE, TRUE).ctx
                [] code[k].kind = "Assign" /\ code[k].rhs.kind = "FuncCall" ->
                     legacy_flatten_func_call_assign(ctx, code[k])
                [] code[k].kind = "Assign" /\ code[k].rhs.kind # "FuncCall" ->
                     legacy_flatten_assign(ctx, code[k])
                [] code[k].kind = "Block" -> legacy_flatten_code_from(ctx, code[k].code, 1)
                [] code[k].kind = "If" -> legacy_flatten_if(ctx, code[k])
                [] code[k].kind = "For" -> legacy_flatten_for(ctx, code[k])}} : TRUE)

legacy_flatten_code(ctx, code) == legacy_flatten_code_from(ctx, code, 1)

\* FlattenedModule::initialize (flattening.rs:814-840)
initialize(linker_modules, module) ==
    (CHOOSE let \in {(CHOOSE let \in {(CHOOSE let \in {(CHOOSE let \in {(CHOOSE let \in {(CHOOSE let \in {[instructions |-> warned.instructions, errors |-> warned.errors,
     interface_ports |-> ports.interface, panicked |-> warned.panicked] : warned \in {find_unused_variables(checked, ports.interface)}} : TRUE) : checked \in {generative_check(typechecked)}} : TRUE) : typechecked \in {typecheck([instructions |-> flattened.instantiations,
                    errors |-> flattened.errors, panicked |-> flattened.panicked])}} : TRUE) : flattened \in {legacy_flatten_code(ports.ctx, module.code)}} : TRUE) : ports \in {legacy_initialize_interface(context, FALSE)}} : TRUE) : context \in {LegacyContext(module, linker_modules)}} : TRUE)

(***************************************************************************)
(* The modules handed to the flattener.  The module under flattening has   *)
(* an input port a and an output port o; the one other module of the       *)
(* linker is "sub".                                                        *)
(***************************************************************************)
MaxStatements == 2

IntDecl(name) == SignalDeclaration(name, NamedType("int"), <<>>, "Local")

\* gen int name; the variable of a for loop is declared so by the parser.
GenDecl(name) == SignalDeclaration(name, NamedType("int"), <<>>, "Generative")

SubCall == FuncCall(<<Named("sub"), Named("a")>>)

Exprs ==
    {Named("a"), Named("x"), Named("true"), Named("zz"), Constant(Integer(1)),
     UnaryOp("-", Named("a")), BinOp(Named("a"), "+", Constant(Integer(1))),
     Array(Named("a"), Constant(Integer(0))), SubCall, FuncCall(<<Named("s")>>),
     FuncCall(<<Named("a")>>), BinOp(SubCall, "+", Named("x"))}

Decls ==
    {IntDecl("x"), GenDecl("x"),
     SignalDeclaration("x", ArrayType(NamedType("int"), Constant(Integer(2))), <<>>,
                       "Generative"),
     SignalDeclaration("x", NamedType("int"), <<Constant(Integer(1))>>, "State"),
     SignalDeclaration("x", ArrayType(NamedType("int"), Named("a")), <<SubCall>>, "Local"),
     SignalDeclaration("s", NamedType("sub"), <<>>, "Local"),
     SignalDeclaration("o", NamedType("zz"), <<>>, "Local")}

SimpleStatements ==
    {Assign(<<AssignTo(DeclarationLeft(d), NoModifiers)>>, <<>>) : d \in Decls}
    \cup {Assign(<<AssignTo(DeclarationLeft(d), NoModifiers)>>, <<Named("a")>>) : d \in Decls}
    \cup {Assign(<<AssignTo(Assignable(Named("o")), LatencyAdding(1))>>, <<e>>) : e \in Exprs}
    \cup {Assign(<<AssignTo(Assignable(Array(Named("o"), SubCall)), Initial)>>,
                 <<Constant(Integer(1))>>),
          Assign(<<AssignTo(Assignable(Named("zz")), NoModifiers)>>, <<Named("a")>>),
          Assign(<<AssignTo(Assignable(Constant(Integer(1))), NoModifiers)>>, <<Named("a")>>),
          Assign(<<AssignTo(Assignable(Named("o")), NoModifiers),
                   AssignTo(DeclarationLeft(IntDecl("x")), LatencyAdding(1))>>, <<SubCall>>),
          Assign(<<AssignTo(Assignable(Named("o")), NoModifiers),
                   AssignTo(Assignable(Named("a")), NoModifiers)>>, <<Named("a")>>),
          Assign(<<>>, <<SubCall>>)}

\* The statements a block of a control structure is made of.
InnerStatements ==
    {Assign(<<AssignTo(DeclarationLeft(IntDecl("x")), NoModifiers)>>, <<Named("a")>>),
     Assign(<<AssignTo(Assignable(Named("o")), LatencyAdding(1))>>, <<Named("i")>>),
     Assign(<<AssignTo(Assignable(Named("o")), NoModifiers)>>, <<SubCall>>)}

InnerBlocks == {<<>>} \cup {<<t>> : t \in InnerStatements}

ControlStatements ==
    {If(c, then, els) : c \in {Named("a"), Named("zz")}, then \in InnerBlocks,
                        els \in {<<>>} \cup {<<b>> : b \in InnerBlocks}}
    \cup {For(GenDecl("i"), Constant(Integer(0)), e, code) :
             e \in {Constant(Integer(1)), Named("zz")}, code \in InnerBlocks}
    \cup {Block(code) : code \in InnerBlocks}

\* Calls of sub with no, one and two arguments, assigned to no, one and two
\* targets or to a name that is no local.
CallStatements ==
    {Assign(to, <<FuncCall(<<Named("sub")>> \o args)>>) :
        args \in {<<>>, <<Named("a")>>, <<Named("a"), Constant(Integer(1))>>},
        to \in {<<>>,
                <<AssignTo(Assignable(Named("o")), NoModifiers)>>,
                <<AssignTo(Assignable(Named("zz")), NoModifiers)>>,
                <<AssignTo(Assignable(Named("o")), NoModifiers),
                  AssignTo(DeclarationLeft(IntDecl("x")), LatencyAdding(1))>>}}

\* Reads and writes of the variable x that a statement before them declares,
\* and of the ports.
TargetStatements ==
    {Assign(<<AssignTo(Assignable(Named(n)), m)>>, <<e>>) :
        n \in {"x", "o"}, m \in {NoModifiers, Initial},
        e \in {Constant(Integer(1)), Named("a")}}
    \cup {Assign(<<AssignTo(Assignable(Array(Named("x"), i)), NoModifiers)>>,
                 <<Constant(Integer(1))>>) : i \in {Named("a"), Constant(Integer(0))}}
    \cup {Assign(<<AssignTo(Assignable(Array(Named("o"), Named("a"))), NoModifiers)>>,
                 <<Constant(Integer(1))>>)}
    \cup {Assign(<<AssignTo(Assignable(Named("o")), NoModifiers)>>,
                 <<Array(Named("x"), i)>>) : i \in {Named("a"), Constant(Integer(0))}}
    \cup {Assign(<<AssignTo(Assignable(Named("a")), Initial)>>, <<Constant(Integer(1))>>),
          Assign(<<AssignTo(DeclarationLeft(IntDecl("x")), NoModifiers)>>, <<>>),
          Assign(<<AssignTo(DeclarationLeft(IntDecl("i")), NoModifiers)>>, <<>>),
          For(GenDecl("x"), Constant(Integer(0)), Constant(Integer(1)), <<>>),
          For(GenDecl("i"), Constant(Integer(0)), Constant(Integer(1)),
              <<Assign(<<AssignTo(Assignable(Named("x")), NoModifiers)>>, <<Named("i")>>)>>)}

\* Writes to a generative variable under a condition that is a runtime value
\* (a) or a compile-time one (zz), the variable declared before the if, in
\* it, or in an if around it.
GenerativeBlocks ==
    {<<Assign(<<AssignTo(Assignable(Named("x")), NoModifiers)>>, <<e>>)>> :
        e \in {Constant(Integer(1)), Named("a")}}
    \cup {<<Assign(<<AssignTo(DeclarationLeft(GenDecl("x")), NoModifiers)>>,
                   <<Constant(Integer(1))>>)>>,
          <<Assign(<<AssignTo(DeclarationLeft(GenDecl("x")), NoModifiers)>>,
                   <<Named("a")>>),
            If(Named("a"),
               <<Assign(<<AssignTo(Assignable(Named("x")), NoModifiers)>>,
                        <<Constant(Integer(1))>>)>>, <<>>)>>}

GenerativeStatements ==
    {If(c, b, <<>>) : c \in {Named("a"), Named("zz")}, b \in GenerativeBlocks}
    \cup {If(c, <<>>, <<b>>) : c \in {Named("a"), Named("zz")}, b \in GenerativeBlocks}

NestedBlocks ==
    {<<c>> : c \in {If(Named("a"), <<>>, <<>>),
                    For(GenDecl("i"), Constant(Integer(0)), Constant(Integer(1)), <<>>),
                    For(GenDecl("i"), Constant(Integer(0)), Constant(Integer(1)),
                        <<Assign(<<AssignTo(Assignable(Array(Named("o"), SubCall)),
                                            Initial)>>, <<Named("i")>>)>>)}}
    \cup {<<If(Named("a"), b, <<b>>), t>> : b \in InnerBlocks, t \in InnerStatements}

NestedStatements ==
    {If(Named("a"), then, <<els>>) : then \in NestedBlocks, els \in NestedBlocks}
    \cup {For(GenDecl("i"), Constant(Integer(0)), Constant(Integer(1)), code) : code \in NestedBlocks}

Statements ==
    SimpleStatements \cup ControlStatements \cup NestedStatements
    \cup GenerativeStatements \cup CallStatements

\* A for loop and a statement after it that names the loop variable, declares
\* a variable of its name or loops over the same name again.
LoopSequences ==
    {<<For(GenDecl("i"), Constant(Integer(0)), Constant(Integer(1)), body), t>> :
        body \in {<<>>, <<Assign(<<AssignTo(Assignable(Named("o")), NoModifiers)>>,
                                 <<Named("i")>>)>>},
        t \in {Assign(<<AssignTo(Assignable(Named("o")), NoModifiers)>>, <<Named("i")>>),
               Assign(<<AssignTo(DeclarationLeft(IntDecl("i")), NoModifiers)>>, <<>>),
               Assign(<<AssignTo(DeclarationLeft(IntDecl("x")), NoModifiers)>>, <<>>),
               For(GenDecl("i"), Constant(Integer(0)), Constant(Integer(1)), <<>>)}}

\* Up to MaxStatements statements: declarations, then one more statement.
DeclarationStatements ==
    {Assign(<<AssignTo(DeclarationLeft(d), NoModifiers)>>, <<>>) : d \in Decls}

CodeBlocks ==
    {<<t>> : t \in Statements}
    \cup UNION {{Append(ds, t) : ds \in [1..n -> DeclarationStatements],
                                t \in ControlStatements \cup NestedStatements
                                      \cup GenerativeStatements \cup TargetStatements} :
                   n \in 1..(MaxStatements - 1)}
    \cup (IF MaxStatements >= 2 THEN LoopSequences ELSE {})

\* The interfaces of "sub": one input and one output; one input only; two
\* outputs, the second with a latency specifier and an array type.
SubModules ==
    {[name |-> "sub", code |-> <<>>, interface |-> i] : i \in
        {[ports |-> <<IntDecl("p"), IntDecl("q")>>, outputs_start |-> 1],
         [ports |-> <<IntDecl("p")>>, outputs_start |-> 1],
         [ports |-> <<IntDecl("q"),
                      SignalDeclaration("r", ArrayType(NamedType("int"), Constant(Integer(2))),
                                        <<Constant(Integer(1))>>, "Local")>>,
          outputs_start |-> 0]}}

Modules ==
    {[name |-> "top", code |-> code,
      interface |-> [ports |-> <<IntDecl("a"), o>>, outputs_start |-> 1]] :
        code \in CodeBlocks,
        o \in {IntDecl("o"),
               SignalDeclaration("o", NamedType("int"), <<Named("a")>>, "Local")}}

\* The same for flattening.rs.  The declarations of the module are an arena:
\* 1 is the input a, 2 the output o, 3 a local x, 4 a local s, 5 the loop
\* variable i, 6 a local y of an inner block, 7 a generative g of an inner
\* block.  A local is named only after the statement that declares it.
LegacyAssign(to, expr) == [kind |-> "Assign", to |-> to, rhs |-> expr]
LegacyFor(var, from, to, code) ==
    [kind |-> "For", var |-> var, range |-> [from |-> from, to |-> to], code |-> code]

LegacyDeclarations ==
    {<<IntDecl("a"), o, x, s, GenDecl("i"), IntDecl("y"), GenDecl("g")>> :
        o \in {IntDecl("o"),
               SignalDeclaration("o", NamedType("int"), <<Local(1)>>, "Local")},
        x \in {IntDecl("x"), GenDecl("x"),
               SignalDeclaration("x", ArrayType(NamedType("int"), Local(1)),
                                 <<Constant(Integer(1))>>, "State"),
               SignalDeclaration("x", NamedType("zz"),
                                 <<FuncCall(<<GlobalRef("sub"), Local(1)>>)>>, "Local")},
        s \in {SignalDeclaration("s", NamedType("sub"), <<>>, "Local"), IntDecl("s")}}

LegacySubCall == FuncCall(<<GlobalRef("sub"), Local(1)>>)

LegacyExprs ==
    {Local(1), Local(3), GlobalRef("true"), GlobalRef("zz"), Constant(Integer(1)),
     UnaryOp("-", Local(1)), BinOp(Local(1), "==", GlobalRef("zz")), Array(Local(3), Constant(Integer(0))),
     LegacySubCall, FuncCall(<<Local(4)>>), FuncCall(<<Constant(Integer(1))>>),
     BinOp(LegacySubCall, "+", Local(3))}

LegacySimpleStatements ==
    {LegacyAssign(<<LegacyAssignTo(AssignableNamed(2), r)>>, e) :
        r \in 0..1, e \in LegacyExprs}
    \cup {LegacyAssign(<<LegacyAssignTo(AssignableNamed(t), 0)>>, Local(1)) : t \in {1, 3, 4}}
    \cup {LegacyAssign(<<LegacyAssignTo(AssignableArrayIndex(AssignableNamed(3), e), 1)>>,
                       Constant(Integer(1))) : e \in {Local(1), GlobalRef("zz"), LegacySubCall}}
    \cup {LegacyAssign(<<LegacyAssignTo(AssignableNamed(2), 0),
                         LegacyAssignTo(AssignableNamed(3), 1)>>, e) :
             e \in {LegacySubCall, Local(1)}}
    \cup {LegacyAssign(<<>>, LegacySubCall)}

LegacyInnerBlocks ==
    {<<>>,
     <<DeclarationStatement(6),
       LegacyAssign(<<LegacyAssignTo(AssignableNamed(6), 0)>>, Local(1))>>,
     <<LegacyAssign(<<LegacyAssignTo(AssignableNamed(2), 1)>>, Local(3))>>,
     <<LegacyAssign(<<LegacyAssignTo(AssignableNamed(2), 0)>>, LegacySubCall)>>}

\* Writes to a generative variable declared before the if or in it.
LegacyGenerativeBlocks ==
    {<<LegacyAssign(<<LegacyAssignTo(AssignableNamed(3), 0)>>, e)>> :
        e \in {Constant(Integer(1)), Local(1)}}
    \cup {<<DeclarationStatement(7),
            LegacyAssign(<<LegacyAssignTo(AssignableNamed(7), 0)>>, Constant(Integer(1)))>>}

LegacyLoopBlocks ==
    LegacyInnerBlocks
    \cup {<<LegacyAssign(<<LegacyAssignTo(AssignableNamed(2), 0)>>, Local(5))>>}

LegacyControlStatements ==
    {If(c, then, els) : c \in {Local(1), GlobalRef("zz")}, then \in LegacyInnerBlocks,
                        els \in {<<>>} \cup {<<b>> : b \in LegacyInnerBlocks}}
    \cup {LegacyFor(5, Constant(Integer(0)), e, code) :
             e \in {Constant(Integer(1)), GlobalRef("zz")}, code \in LegacyLoopBlocks}
    \cup {Block(code) : code \in LegacyInnerBlocks}
    \cup {If(c, b, <<>>) : c \in {Local(1), GlobalRef("zz")}, b \in LegacyGenerativeBlocks}

LegacyNestedBlocks ==
    {<<c>> : c \in {If(Local(1), <<>>, <<>>),
                    LegacyFor(5, Constant(Integer(0)), Constant(Integer(1)), <<>>),
                    LegacyFor(5, Constant(Integer(0)), Constant(Integer(1)),
                        <<LegacyAssign(<<LegacyAssignTo(
                              AssignableArrayIndex(AssignableNamed(3), LegacySubCall), 1)>>,
                              Local(5))>>)}}
    \cup {<<If(Local(1), b, <<b>>), t>> :
             b \in LegacyInnerBlocks, t \in LegacySimpleStatements \ {LegacyAssign(<<>>, LegacySubCall)}}

LegacyNestedStatements ==
    {If(Local(1), then, <<els>>) :
        then \in LegacyNestedBlocks,
        els \in {<<>>, <<If(GlobalRef("zz"), <<>>, <<>>)>>, <<If(Local(1), <<>>, <<>>)>>}}
    \cup {LegacyFor(5, Constant(Integer(0)), Constant(Integer(1)), code) : code \in LegacyNestedBlocks}

LegacyCodeBlocks ==
    UNION {{Append(ds, t) :
               ds \in {SubSeq(<<DeclarationStatement(3), DeclarationStatement(4)>>, 1, n)},
               t \in IF n = 2
                     THEN LegacySimpleStatements \cup LegacyControlStatements
                          \cup LegacyNestedStatements
                     ELSE LegacyControlStatements} :
            n \in (3 - MaxStatements)..2}

LegacySubModules ==
    {[name |-> "sub", code |-> <<>>, declarations |-> d, ports |-> i] : <<d, i>> \in
        {<<<<IntDecl("p"), IntDecl("q")>>, [ports |-> <<1, 2>>, outputs_start |-> 1]>>,
         <<<<IntDecl("p")>>, [ports |-> <<1>>, outputs_start |-> 1]>>,
         <<<<IntDecl("q"),
             SignalDeclaration("r", ArrayType(NamedType("int"), Constant(Integer(2))),
                               <<Local(1)>>, "Local")>>,
           [ports |-> <<1, 2>>, outputs_start |-> 0]>>}}

LegacyModules ==
    {[name |-> "top", code |-> code, declarations |-> d,
      ports |-> [ports |-> <<1, 2>>, outputs_start |-> 1]] :
        code \in LegacyCodeBlocks, d \in LegacyDeclarations}

(***************************************************************************)
(* The flattening of one module                                            *)
(***************************************************************************)
Flattened(result) ==
    /\ instructions' = IF result.panicked THEN <<>> ELSE result.instructions
    /\ fl_errors' = IF result.panicked THEN <<>> ELSE result.errors
    /\ fl_interface_ports' = IF result.panicked THEN <<>> ELSE <<result.interface_ports>>
    /\ fl_pc' = IF result.panicked THEN panic_message(result) ELSE "flattened"
    /\ UNCHANGED fl_module
    /\ UNCHANGED latVars
    /\ UNCHANGED linkVars
    /\ UNCHANGED hmVars
    /\ UNCHANGED mgVars
    /\ UNCHANGED rtVars

\* FlattenedModule::flatten of flattening/mod.rs
FlattenModule ==
    /\ fl_pc = "parsed"
    /\ fl_module.version = "flattening/mod.rs"
    /\ \E result \in {flatten(fl_module.linker_modules, fl_module.module)} :
          Flattened(result)

\* FlattenedModule::initialize of flattening.rs
Initialize ==
    /\ fl_pc = "parsed"
    /\ fl_module.version = "flattening.rs"
    /\ \E result \in {initialize(fl_module.linker_modules, fl_module.module)} :
          Flattened(result)

FlatInit ==
    /\ LatIdle
    /\ LinkIdle
    /\ HmIdle
    /\ MgIdle
    /\ RtIdle
    /\ \/ \E module \in Modules, sub \in SubModules :
             fl_module = [version |-> "flattening/mod.rs", module |-> module,
                          linker_modules |-> <<sub>>]
       \/ \E module \in LegacyModules, sub \in LegacySubModules :
             fl_module = [version |-> "flattening.rs", module |-> module,
                          linker_modules |-> <<sub>>]
    /\ instructions = <<>>
    /\ fl_errors = <<>>
    /\ fl_interface_ports = <<>>
    /\ fl_pc = "parsed"

FlatNext == FlattenModule \/ Initialize

SpecFlatten == FlatInit /\ [][FlatNext]_vars

(***************************************************************************)
(* Properties of the flattened instruction list                            *)
(***************************************************************************)
\* Every FlatID an instruction names as an operand.
Operands(instruction) ==
    CASE instruction.kind = "Wire" -> instruction.source.operands
      [] instruction.kind \in {"Write", "Connection"} ->
            <<instruction.from, instruction.to.root>> \o instruction.to.path
      [] instruction.kind = "IfStatement" -> <<instruction.condition>>
      [] instruction.kind = "ForStatement" ->
            <<instruction.loop_var_decl, instruction.start, instruction.end>>
      [] instruction.kind = "Declaration" ->
            instruction.latency_specifier \o instruction.typ_expr.sizes
      [] instruction.kind = "WireDeclaration" ->
            instruction.latency_specifier \o instruction.typ.sizes
      [] instruction.kind = "SubModule" -> instruction.interface_ports.ports

\* The half-open ranges of instructions the control structures own: of an
\* if, the then-block, the else-block and the two together; of a for, its
\* body.
ControlRanges ==
    UNION {
        CASE instructions[id].kind = "IfStatement" ->
                {<<instructions[id].then_start, instructions[id].then_end_else_start>>,
                 <<instructions[id].then_end_else_start, instructions[id].else_end>>,
                 <<instructions[id].then_start, instructions[id].else_end>>}
          [] instructions[id].kind = "ForStatement" -> {instructions[id].loop_body}
          [] OTHER -> {} : id \in DOMAIN instructions}

Span(range) == range[1]..(range[2] - 1)

DisjointOrNested(r1, r2) ==
    \/ Span(r1) \cap Span(r2) = {}
    \/ Span(r1) \subseteq Span(r2)
    \/ Span(r2) \subseteq Span(r1)

OperandsPrecede ==
    \A id \in DOMAIN instructions :
        \A k \in DOMAIN Operands(instructions[id]) : Operands(instructions[id])[k] < id

RangesWellFormed ==
    \A id \in DOMAIN instructions :
        LET instruction == instructions[id] IN
        /\ instruction.kind = "IfStatement" =>
              /\ PLACEHOLDER \notin {instruction.then_start, instruction.then_end_else_start,
                                     instruction.else_end}
              /\ instruction.then_start > id
              /\ instruction.then_start <= instruction.then_end_else_start
              /\ instruction.then_end_else_start <= instruction.else_end
              /\ instruction.else_end <= Len(instructions) + 1
        /\ instruction.kind = "ForStatement" =>
              /\ PLACEHOLDER \notin {instruction.loop_body[1], instruction.loop_body[2]}
              /\ instruction.loop_body[1] > id
              /\ instruction.loop_body[1] <= instruction.loop_body[2]
              /\ instruction.loop_body[2] <= Len(instructions) + 1

\* C10: after flattening, every FlatID an instruction names as an operand is
\* strictly smaller than the instruction's own FlatID; the ranges of the if
\* and for statements hold no PLACEHOLDER, start strictly after the
\* statement, are ordered (then_start <= then_end_else_start <= else_end),
\* and any two of them are disjoint or nested.
C10_OperandsPrecedeAndRangesNest ==
    fl_pc = "flattened" =>
        /\ OperandsPrecede
        /\ RangesWellFormed
        /\ \A r1, r2 \in ControlRanges : DisjointOrNested(r1, r2)

\* A flattened list with a for inside the then-block of an if that has an
\* else-block of its own, a sub-module instance and a write through it.
C10_Witness ==
    /\ fl_pc = "flattened"
    /\ \E i, f \in DOMAIN instructions :
          /\ instructions[i].kind = "IfStatement"
          /\ instructions[f].kind = "ForStatement"
          /\ instructions[i].then_start <= f
          /\ f < instructions[i].then_end_else_start
          /\ instructions[i].then_end_else_start < instructions[i].else_end
          /\ instructions[f].loop_body[1] < instructions[f].loop_body[2]
    /\ \E m \in DOMAIN instructions :
          /\ instructions[m].kind = "SubModule"
          /\ instructions[m].interface_ports.ports # <<>>
    /\ \E w \in DOMAIN instructions :
          /\ instructions[w].kind \in {"Write", "Connection"}
          /\ instructions[w].to.path # <<>>

(***************************************************************************)
(* The wires of expressions                                                *)
(***************************************************************************)
\* The instructions of the module once flatten_code has returned
\* (mod.rs:912-914), before typecheck.
FlattenedCode ==
    (CHOOSE let \in {(CHOOSE let \in {flatten_code(ports.ctx, fl_module.module.code) : ports \in {initialize_interface(context, FALSE)}} : TRUE) : context \in {FlatteningContext(fl_module.module, fl_module.linker_modules)}} : TRUE)

\* The FlatIDs an instruction names where typecheck and generative_check
\* extract a Wire: the operands of an operator or array access, the indices
\* of a write path and the source of a write, the condition of an if, the
\* bounds of a for, the latency specifier and the array sizes of a
\* declaration.
WireOperands(instruction) ==
    CASE instruction.kind = "Wire" ->
            IF instruction.source.kind = "WireRead" THEN <<>>
            ELSE instruction.source.operands
      [] instruction.kind = "Write" -> <<instruction.from>> \o instruction.to.path
      [] instruction.kind = "IfStatement" -> <<instruction.condition>>
      [] instruction.kind = "ForStatement" -> <<instruction.start, instruction.end>>
      [] instruction.kind = "Declaration" ->
            instruction.latency_specifier \o instruction.typ.sizes
      [] OTHER -> <<>>

\* C11: whatever the form of an expression, flatten_expr returns the FlatID
\* of a Wire: in the instructions flatten_code leaves, every operand of an
\* operator or array access, every array index, if condition, for bound,
\* latency specifier, array size and source of a Write designates a Wire, so
\* that no extract_wire of typecheck or generative_check panics.
C11_ExpressionsAreWires ==
    (fl_pc # "parsed" /\ fl_module.version = "flattening/mod.rs") =>
        (CHOOSE let \in {ctx.panicked
            \/ \A id \in DOMAIN ctx.instructions :
                   \A k \in DOMAIN WireOperands(ctx.instructions[id]) :
                       ctx.instructions[WireOperands(ctx.instructions[id])[k]].kind = "Wire" : ctx \in {FlattenedCode}} : TRUE)

(***************************************************************************)
(* Read-only declarations                                                  *)
(***************************************************************************)
\* The declarations of the three kinds that may not be assigned to.
IsModuleInput(id) == id \in interface_inputs(fl_interface_ports[1])
IsSubModuleOutput(id) ==
    \E m \in DOMAIN instructions :
        /\ instructions[m].kind = "SubModule"
        /\ id \in interface_outputs(instructions[m].interface_ports)
IsLoopVariable(id) ==
    \E f \in DOMAIN instructions :
        instructions[f].kind = "ForStatement" /\ instructions[f].loop_var_decl = id

\* C12: in the flattened module a Declaration is read_only exactly when it is
\* an input port of the module, an output port of a sub-module instance or
\* the variable of a for loop; every other Declaration (an output port of
\* the module, an input port of a sub-module instance, a local) is not.
C12_ReadOnlyExactly ==
    (fl_pc = "flattened" /\ fl_module.version = "flattening/mod.rs") =>
        \A id \in DOMAIN instructions :
            instructions[id].kind = "Declaration" =>
                (instructions[id].read_only <=>
                    IsModuleInput(id) \/ IsSubModuleOutput(id) \/ IsLoopVariable(id))

\* A flattened module with declarations of all the kinds: the two ports of
\* the module, an input and an output port of a sub-module instance, a loop
\* variable and a local.
C12_Witness ==
    /\ fl_pc = "flattened" /\ fl_module.version = "flattening/mod.rs"
    /\ \E i, o, l \in DOMAIN instructions :
          /\ instructions[i].kind = "Declaration" /\ instructions[i].read_only
          /\ IsLoopVariable(i)
          /\ instructions[o].kind = "Declaration" /\ instructions[o].read_only
          /\ IsSubModuleOutput(o)
          /\ instructions[l].kind = "Declaration" /\ ~instructions[l].read_only
          /\ ~IsModuleInput(l)
          /\ l \notin interface_outputs(fl_interface_ports[1])
          /\ \A m \in DOMAIN instructions :
                instructions[m].kind = "SubModule" =>
                    l \notin Range(instructions[m].interface_ports.ports)
    /\ \E m \in DOMAIN instructions :
          /\ instructions[m].kind = "SubModule"
          /\ \E p \in interface_inputs(instructions[m].interface_ports) :
                ~instructions[p].read_only

(***************************************************************************)
(* The scope of a loop variable                                            *)
(***************************************************************************)
\* The loop variables of the for statements whose body has ended before
\* instruction id.
EndedLoopVariables(id) ==
    {instructions[f].loop_var_decl : f \in {g \in DOMAIN instructions :
        instructions[g].kind = "ForStatement" /\ instructions[g].loop_body[2] <= id}}

\* C13: the variable of a for loop is bound only inside the body of the loop:
\* no instruction after the body names the loop variable's Declaration, and a
\* declaration after the loop (a declaration statement or the variable of a
\* second for) is not reported as a conflict when the only earlier
\* declarations of its name are variables of loops that have ended; the
\* Declaration of a loop variable is read_only and generative.
C13_LoopVariableScopedToBody ==
    (fl_pc = "flattened" /\ fl_module.version = "flattening/mod.rs") =>
        /\ \A id \in DOMAIN instructions :
               Range(Operands(instructions[id])) \cap EndedLoopVariables(id) = {}
        /\ \A e \in DOMAIN fl_errors :
               fl_errors[e].message
                  = "This declaration conflicts with a previous declaration in the same scope"
               => \E d \in 1..(fl_errors[e].span - 1) :
                     /\ instructions[d].kind = "Declaration"
                     /\ instructions[d].name = instructions[fl_errors[e].span].name
                     /\ d \notin EndedLoopVariables(fl_errors[e].span)
        /\ \A f \in DOMAIN instructions :
               instructions[f].kind = "ForStatement" =>
                  /\ instructions[instructions[f].loop_var_decl].read_only
                  /\ is_generative(instructions[instructions[f].loop_var_decl].identifier_type)

(***************************************************************************)
(* The arity of calls                                                      *)
(***************************************************************************)
\* The module is one statement that assigns a call of the module sub.
IsCallStatement(code) ==
    /\ Len(code) = 1 /\ code[1].kind = "Assign" /\ code[1].rhs # <<>>
    /\ code[1].rhs[1].kind = "FuncCall"
    /\ code[1].rhs[1].func_and_args[1] = Named("sub")

\* The number of errors with one of the messages.
ErrorCount(messages) ==
    Cardinality({e \in DOMAIN fl_errors : fl_errors[e].message \in messages})

\* The wire reads what the argument names.
IsFlattenedArgument(wire, arg) ==
    /\ wire.kind = "Wire"
    /\ \/ arg.kind = "Named" /\ wire.source.kind = "WireRead"
             /\ instructions[wire.source.operands[1]].name = arg.name
       \/ arg.kind = "Constant" /\ wire.source.kind = "Constant"
             /\ wire.source.value = arg.value

\* The declaration is the one the target of the assignment stands for.
IsTarget(root, target) ==
    IF target.left.kind = "Assignable"
    THEN /\ target.left.assignable.kind = "Named"
         /\ instructions[root].name = target.left.assignable.name
         /\ root \in Range(fl_interface_ports[1].ports)
    ELSE /\ instructions[root].name = target.left.decl.name
         /\ root \notin Range(fl_interface_ports[1].ports)

\* The arity errors and the Writes of a module that is one call statement.
CallStatementArity ==
    (/\ fl_pc # "parsed" /\ fl_module.version = "flattening/mod.rs"
     /\ IsCallStatement(fl_module.module.code)) =>
        LET args == Tail(fl_module.module.code[1].rhs[1].func_and_args)
            to == fl_module.module.code[1].to
            n == Len(args)
            m == fl_module.linker_modules[1].interface.outputs_start
            p == Len(fl_module.linker_modules[1].interface.ports) - m
            q == Len(to)
            Min(a, b) == IF a < b THEN a ELSE b
        IN /\ fl_pc = "flattened"
           /\ ErrorCount({"Excess argument", "Too few arguments"})
                 = IF n # m THEN 1 ELSE 0
           /\ ErrorCount({"Excess output targets", "Too few output targets"})
                 = IF p # q THEN 1 ELSE 0
           /\ \E sm \in DOMAIN instructions :
                 /\ instructions[sm].kind = "SubModule"
                 /\ LET ports == instructions[sm].interface_ports.ports
                        input_writes ==
                            SelectSeq([id \in DOMAIN instructions |-> id], LAMBDA id :
                                /\ instructions[id].kind = "Write"
                                /\ instructions[id].to.root \in Range(ports))
                        output_writes ==
                            {id \in DOMAIN instructions :
                                /\ instructions[id].kind = "Write"
                                /\ instructions[instructions[id].from].kind = "Wire"
                                /\ instructions[instructions[id].from].source.kind = "WireRead"
                                /\ instructions[instructions[id].from].source.operands[1]
                                      \in Range(ports)}
                    IN /\ Len(input_writes) = Min(n, m)
                       /\ \A i \in DOMAIN input_writes :
                             LET write == instructions[input_writes[i]] IN
                             /\ write.write_type.kind = "Connection"
                             /\ write.write_type.num_regs = 0
                             /\ write.to.root = ports[i] /\ write.to.path = <<>>
                             /\ IsFlattenedArgument(instructions[write.from], args[i])
                       /\ Cardinality(output_writes) <= Min(p, q)
                       /\ \A w \in output_writes :
                             \E k \in 1..Min(p, q) :
                                /\ instructions[instructions[w].from].source.operands[1]
                                      = ports[m + k]
                                /\ IsTarget(instructions[w].to.root, to[k])

RuntimeIfsAround(id) ==
    {i \in DOMAIN instructions :
        /\ instructions[i].kind = "IfStatement"
        /\ ~instructions[instructions[i].condition].is_compiletime
        /\ instructions[i].then_start <= id /\ id < instructions[i].else_end}

\* The Connection writes (of flattening.rs, every write) to a generative
\* declaration.
GenerativeConnections ==
    {w \in DOMAIN instructions :
        /\ \/ instructions[w].kind = "Connection"
           \/ /\ instructions[w].kind = "Write"
              /\ instructions[w].write_type.kind = "Connection"
        /\ is_generative(instructions[instructions[w].to.root].identifier_type)}

HasError(span, message) ==
    \E e \in DOMAIN fl_errors :
        /\ fl_errors[e].level = "error" /\ fl_errors[e].span = span
        /\ fl_errors[e].message = message

\* Every write to a generative declaration from a source that is not
\* compile-time is reported on the source.
NonGenerativeSourcesReported ==
    \A w \in DOMAIN instructions :
        (/\ instructions[w].kind \in {"Write", "Connection"}
         /\ is_generative(instructions[instructions[w].to.root].identifier_type)
         /\ ~instructions[instructions[w].from].is_compiletime) =>
            \/ HasError(instructions[w].from,
                        "Assignments to generative variables must be compile time")
            \/ HasError(instructions[w].from,
                        "initial value assignment must be compile time")

\* C15: generative_check reports "Cannot write to generative variables in
\* runtime conditional block" on exactly the Connection writes to a generative
\* declaration that lie in the then or else block of at least one if with a
\* condition that is not compile-time, wherever the declaration was declared;
\* and it reports "must be compile time" for every write to a generative
\* declaration whose source is not compile-time.
C15_RuntimeConditionalWrites ==
    fl_pc = "flattened" =>
        /\ \A w \in GenerativeConnections :
               HasError(w, "Cannot write to generative variables in runtime conditional block")
               <=> RuntimeIfsAround(w) # {}
        /\ NonGenerativeSourcesReported

\* C15, amended: the error is reported on exactly the Connection writes to a
\* generative declaration that lie in the then or else block of at least one
\* if with a condition that is not compile-time which does not hold the
\* declaration as well; and "must be compile time" is reported for every
\* write to a generative declaration whose source is not compile-time.
C15_RuntimeConditionalWritesAmended ==
    fl_pc = "flattened" =>
        /\ \A w \in GenerativeConnections :
               HasError(w, "Cannot write to generative variables in runtime conditional block")
               <=> RuntimeIfsAround(w) \ RuntimeIfsAround(instructions[w].to.root) # {}
        /\ NonGenerativeSourcesReported

\* A generative variable declared in a runtime if and written there from a
\* source that is not compile-time: the source is reported, the place of the
\* write is not; a write to it in a runtime if inside that if is reported.
C15_Witness ==
    /\ fl_pc = "flattened"
    /\ \E w \in GenerativeConnections :
          /\ RuntimeIfsAround(w) \ RuntimeIfsAround(instructions[w].to.root) # {}
          /\ RuntimeIfsAround(instructions[w].to.root) # {}
          /\ HasError(w, "Cannot write to generative variables in runtime conditional block")
    /\ \E w \in GenerativeConnections :
          /\ RuntimeIfsAround(w) # {}
          /\ RuntimeIfsAround(w) = RuntimeIfsAround(instructions[w].to.root)
          /\ ~HasError(w, "Cannot write to generative variables in runtime conditional block")
          /\ ~instructions[instructions[w].from].is_compiletime
          /\ HasError(instructions[w].from,
                      "Assignments to generative variables must be compile time")

(***************************************************************************)
(* Indices, latency specifiers and array sizes                             *)
(***************************************************************************)
\* An error "... must be compile time" on one of the instructions.
CompileTimeErrorOn(spans) ==
    \E e \in DOMAIN fl_errors :
        /\ fl_errors[e].level = "error" /\ fl_errors[e].span \in spans
        /\ fl_errors[e].message \in
              {"Latency specifier must be compile time", "Array size must be compile time",
               "Assignments to generative variables must be compile time",
               "initial value assignment must be compile time"}

\* The wire reads a generative declaration.
ReadsGenerative(wire) ==
    /\ wire.kind = "Wire" /\ wire.source.kind = "WireRead"
    /\ is_generative(instructions[wire.source.operands[1]].identifier_type)

\* C16: an index that is not compile-time into a generative declaration is
\* reported, in an array access that is read and in the path of the target of
\* a Write; a latency specifier and an array size that are not compile-time
\* are reported.
C16_GenerativeIndices ==
    (fl_pc = "flattened" /\ fl_module.version = "flattening/mod.rs") =>
        /\ \A w \in DOMAIN instructions :
              (/\ instructions[w].kind = "Wire"
               /\ instructions[w].source.kind = "ArrayAccess"
               /\ ReadsGenerative(instructions[instructions[w].source.operands[1]])
               /\ ~instructions[instructions[w].source.operands[2]].is_compiletime)
              => CompileTimeErrorOn({w, instructions[w].source.operands[2]})
        /\ \A w \in DOMAIN instructions :
              (/\ instructions[w].kind = "Write"
               /\ is_generative(instructions[instructions[w].to.root].identifier_type))
              => \A k \in DOMAIN instructions[w].to.path :
                    ~instructions[instructions[w].to.path[k]].is_compiletime
                    => CompileTimeErrorOn({w, instructions[w].to.path[k]})
        /\ \A d \in DOMAIN instructions :
              instructions[d].kind = "Declaration" =>
                 \A k \in DOMAIN WireOperands(instructions[d]) :
                    ~instructions[WireOperands(instructions[d])[k]].is_compiletime
                    => CompileTimeErrorOn({WireOperands(instructions[d])[k]})

(***************************************************************************)
(* Initial writes                                                          *)
(***************************************************************************)
\* The Writes with the modifier initial.
InitialWrites ==
    {w \in DOMAIN instructions :
        instructions[w].kind = "Write" /\ instructions[w].write_type.kind = "Initial"}

\* The errors of generative_check on a Write or on its source.
GenerativeCheckMessages(w) ==
    {fl_errors[e].message : e \in {e \in DOMAIN fl_errors :
        /\ fl_errors[e].level = "error"
        /\ fl_errors[e].span \in {w, instructions[w].from}
        /\ fl_errors[e].message \in
              {"Cannot Assign to Read-Only value",
               "Initial values can only be given to state registers!",
               "initial value assignment must be compile time",
               "Assignments to generative variables must be compile time",
               "Cannot write to generative variables in runtime conditional block"}}}

\* C17: for every Write with the modifier initial, "Initial values can only
\* be given to state registers!" is reported exactly when the target is no
\* state declaration, "initial value assignment must be compile time" is
\* reported exactly when the source wire is not compile-time, and generative_check
\* reports nothing else on the Write but the read-only error of a read_only target.
C17_InitialWrites ==
    (fl_pc = "flattened" /\ fl_module.version = "flattening/mod.rs") =>
        \A w \in InitialWrites :
            /\ HasError(w, "Initial values can only be given to state registers!")
                   <=> instructions[instructions[w].to.root].identifier_type # "State"
            /\ HasError(instructions[w].from, "initial value assignment must be compile time")
                   <=> ~instructions[instructions[w].from].is_compiletime
            /\ (/\ instructions[instructions[w].to.root].identifier_type = "State"
                /\ instructions[instructions[w].from].is_compiletime)
               => GenerativeCheckMessages(w) =
                     IF instructions[instructions[w].to.root].read_only
                     THEN {"Cannot Assign to Read-Only value"} ELSE {}

C17_Witness ==
    /\ fl_pc = "flattened" /\ fl_module.version = "flattening/mod.rs"
    /\ \E w \in InitialWrites :
          /\ instructions[instructions[w].to.root].identifier_type # "State"
          /\ ~instructions[instructions[w].from].is_compiletime
          /\ GenerativeCheckMessages(w) =
                {"Initial values can only be given to state registers!",
                 "initial value assignment must be compile time"}

(***************************************************************************)
(* Type inference: typing/type_inference.rs                                *)
(***************************************************************************)
NumVariables == 2    \* variables alloc'ed on one substitutor
NumNames == 1        \* named types the types are built of
NumDomains == 2      \* physical domains
NumValues == 1       \* values of the dependent-type fragment (array sizes)
MaxFailed == 2       \* failed unifications held until extract_errors

\* AbstractType, DomainType and ConcreteType as terms: the variant, its id
\* (variable, name, template, domain or value) and its boxed arguments.
\*   AbstractType: Unknown(v) | Template(t) | Named(n) | Array(content)
\*   DomainType:   Generative | Physical(d) | DomainVariable(v)
\*   ConcreteType: Unknown(v) | Named(n) | Value(x) | Array(content, size)
HMType(kind, id, args) == [kind |-> kind, id |-> id, args |-> args]

NoType == HMType("None", 0, <<>>)
GENERATIVE == HMType("Generative", 0, <<>>)

\* The types without arguments over the variables 1..num_vars.
HMLeaves(family, num_vars) ==
    IF family = "AbstractType"
    THEN {HMType("Unknown", v, <<>>) : v \in 1..num_vars}
         \cup {HMType("Named", n, <<>>) : n \in 1..NumNames}
         \cup {HMType("Template", 1, <<>>)}
    ELSE IF family = "DomainType"
    THEN {GENERATIVE}
         \cup {HMType("Physical", d, <<>>) : d \in 1..NumDomains}
         \cup {HMType("DomainVariable", v, <<>>) : v \in 1..num_vars}
    ELSE {HMType("Unknown", v, <<>>) : v \in 1..num_vars}
         \cup {HMType("Named", n, <<>>) : n \in 1..NumNames}
         \cup {HMType("Value", x, <<>>) : x \in 1..NumValues}

\* The types given to the substitutor: the leaves and the arrays of leaves.
\* The size of a ConcreteType::Array is a value or a variable; the variables
\* with an even id stand for sizes, those with an odd id for types.
HMTypes(family, num_vars) ==
    HMLeaves(family, num_vars) \cup
    (IF family = "AbstractType"
     THEN {HMType("Array", 0, <<content>>) : content \in HMLeaves(family, num_vars)}
     ELSE IF family = "DomainType" THEN {}
     ELSE {HMType("Array", 0, <<content, size>>) :
              content \in {t \in HMLeaves(family, num_vars) :
                              t.kind = "Named" \/ (t.kind = "Unknown" /\ t.id % 2 = 1)},
              size \in {t \in HMLeaves(family, num_vars) :
                              t.kind = "Value" \/ (t.kind = "Unknown" /\ t.id % 2 = 0)}})

\* HindleyMilner::get_hm_info of the three implementations: a variable, a
\* type function, or unreachable!() for DomainType::Generative.
get_hm_info_GenerativeIsFunc(typ) ==
    IF typ.kind \in {"Unknown", "DomainVariable"}
    THEN [tag |-> "TypeVar", var |-> typ.id, func |-> <<"TypeVar", 0>>]
    ELSE IF typ.kind = "Array"
    THEN [tag |-> "TypeFunc", var |-> 0, func |-> <<"Array", 0>>]
    ELSE [tag |-> "TypeFunc", var |-> 0, func |-> <<typ.kind, typ.id>>]

get_hm_info(typ) ==
    IF typ.kind \in {"Unknown", "DomainVariable"}
    THEN [tag |-> "TypeVar", var |-> typ.id, func |-> <<"TypeVar", 0>>]
    ELSE IF typ.kind = "Generative"
    THEN [tag |-> "unreachable", var |-> 0, func |-> <<"Generative", 0>>]
    ELSE IF typ.kind = "Array"
    THEN [tag |-> "TypeFunc", var |-> 0, func |-> <<"Array", 0>>]
    ELSE [tag |-> "TypeFunc", var |-> 0, func |-> <<typ.kind, typ.id>>]

\* OnceCell::set: Ok(()) on an empty cell, Err(value) on a full one.
typ_cell_set(typ_cell, value) ==
    IF typ_cell = <<>> THEN [ok |-> TRUE, cell |-> <<value>>]
    ELSE [ok |-> FALSE, cell |-> typ_cell]

\* unify with `if let Some(found) = typ_cell.get()` never taken.
typ_cell_found_Never(typ_cell) == FALSE

\* unify: `if let Some(found) = typ_cell.get()`
typ_cell_found(typ_cell) == typ_cell # <<>>

\* What a call of unify returns: the substitution map after it, the result,
\* and "ok" or how the call ended the process.
UnifyResult(map, status, result) == [map |-> map, status |-> status, result |-> result]

RECURSIVE unify(_, _, _, _)
RECURSIVE unify_all_args(_, _, _, _, _)

\* HindleyMilner::unify_all_args: the arguments of two types of the same type
\* function, pair by pair; ConcreteType::Array joins the two results with `&`,
\* so the sizes are unified also after the contents failed to.
unify_all_args(map, left, right, active, k) ==
    IF k > Len(left.args) THEN UnifyResult(map, "ok", TRUE)
    ELSE (CHOOSE let \in {IF first.status # "ok" THEN first
         ELSE (CHOOSE let \in {UnifyResult(rest.map, rest.status, first.result /\ rest.result) : rest \in {unify_all_args(first.map, left, right, active, k + 1)}} : TRUE) : first \in {unify(map, left.args[k], right.args[k], active)}} : TRUE)

\* TypeSubstitutor::unify. `active` holds the calls of unify that have not
\* returned yet: a call with the arguments and the substitution map of an
\* active call never returns (the recursion overflows the stack).
unify(map, a, b, active) ==
    IF <<map, a, b>> \in active THEN UnifyResult(map, "stack overflow", FALSE)
    ELSE IF get_hm_info(a).tag = "unreachable" \/ get_hm_info(b).tag = "unreachable"
    THEN UnifyResult(map, "unreachable", FALSE)
    ELSE IF get_hm_info(a).tag = "TypeFunc"
    THEN IF get_hm_info(b).tag = "TypeFunc"
         THEN IF get_hm_info(a).func # get_hm_info(b).func
              THEN UnifyResult(map, "ok", FALSE)
              ELSE unify_all_args(map, a, b, active \cup {<<map, a, b>>}, 1)
         ELSE unify(map, b, a, active \cup {<<map, a, b>>})
    ELSE IF get_hm_info(b).tag = "TypeVar" /\ get_hm_info(a).var = get_hm_info(b).var
    THEN UnifyResult(map, "ok", TRUE)
    ELSE IF typ_cell_found(map[get_hm_info(a).var])
    THEN unify(map, map[get_hm_info(a).var][1], b, active \cup {<<map, a, b>>})
    ELSE (CHOOSE let \in {IF set.ok
         THEN UnifyResult([map EXCEPT ![get_hm_info(a).var] = set.cell], "ok", TRUE)
         ELSE UnifyResult(map, "typ_cell.set failed", FALSE) : set \in {typ_cell_set(map[get_hm_info(a).var], b)}} : TRUE)

\* What a call of fully_substitute leaves: the type after it, the result, and
\* "ok" or how the call ended the process.
SubstituteResult(typ, status, result) == [typ |-> typ, status |-> status, result |-> result]

RECURSIVE fully_substitute(_, _, _, _)
RECURSIVE fully_substitute_args(_, _, _, _, _)

\* The arguments of an array: AbstractType::Array substitutes its content,
\* ConcreteType::Array joins content and size with `&&`, so the size is left
\* alone when the content returned false.
fully_substitute_args(family, map, typ, expanding, k) ==
    IF k > Len(typ.args) THEN SubstituteResult(typ, "ok", TRUE)
    ELSE (CHOOSE let \in {(CHOOSE let \in {IF first.status # "ok" \/ ~first.result
         THEN SubstituteResult(substituted, first.status, FALSE)
         ELSE fully_substitute_args(family, map, substituted, expanding, k + 1) : substituted \in {[typ EXCEPT !.args[k] = first.typ]}} : TRUE) : first \in {fully_substitute(family, map, typ.args[k], expanding)}} : TRUE)

\* HindleyMilner::fully_substitute of the three implementations. `expanding`
\* holds the variables whose replacement is being substituted: a variable
\* reached inside its own replacement is replaced again without end (the
\* recursion overflows the stack).
fully_substitute(family, map, typ, expanding) ==
    IF typ.kind \in {"Unknown", "DomainVariable"}
    THEN IF map[typ.id] = <<>>
         THEN IF family = "DomainType"
              THEN SubstituteResult(typ, "expect failed", FALSE)
              ELSE SubstituteResult(typ, "ok", FALSE)
         ELSE IF typ.id \in expanding
         THEN SubstituteResult(typ, "stack overflow", FALSE)
         ELSE fully_substitute(family, map, map[typ.id][1], expanding \cup {typ.id})
    ELSE IF typ.kind = "Array"
    THEN fully_substitute_args(family, map, typ, expanding, 1)
    ELSE SubstituteResult(typ, "ok", TRUE)

ResultName(result) == IF result THEN "true" ELSE "false"

\* The failed unifications held until extract_errors: MaxFailed of domains,
\* which have no arguments, one less of the types with arrays.
FailedBound(family) == IF family = "DomainType" THEN MaxFailed ELSE MaxFailed - 1

\* The span and the UnifyErrorReport given to unify_report_error: a &str, or a
\* closure that returns the context and infos.
Reports ==
    {[span |-> 1, reporter |-> [kind |-> "str", context |-> "array index", infos |-> <<>>]],
     [span |-> 2, reporter |-> [kind |-> "closure", context |-> "write",
                                infos |-> <<"Declared here">>]]}

NoReporter == [kind |-> "none", context |-> "", infos |-> <<>>]

\* UnifyErrorReport::report
report(reporter) ==
    IF reporter.kind = "str" THEN [context |-> reporter.context, infos |-> <<>>]
    ELSE [context |-> reporter.context, infos |-> reporter.infos]

\* unify_report_error with the span of the record left at its default.
FailedUnification_NoSpan(found, expected, span, reported) ==
    [found |-> found, expected |-> expected, span |-> 0,
     context |-> reported.context, infos |-> reported.infos]

\* FailedUnification { found, expected, span, context, infos }
FailedUnification(found, expected, span, reported) ==
    [found |-> found, expected |-> expected, span |-> span,
     context |-> reported.context, infos |-> reported.infos]

\* A call on the substitutor: its arguments and what it returned.
HmCall(op, a, b, result) ==
    [op |-> op, a |-> a, b |-> b, result |-> result,
     span |-> 0, reporter |-> NoReporter, returned |-> <<>>]

\* The process ends with the first panic or stack overflow.
HmEnded(status) == hm_pc' = IF status = "ok" THEN "running" ELSE status

\* TypeSubstitutor::alloc
Alloc ==
    /\ hm_pc = "running"
    /\ Len(substitution_map) < NumVariables
    /\ substitution_map' = Append(substitution_map, <<>>)
    /\ hm_last' = HmCall("alloc", NoType, NoType, "none")
    /\ UNCHANGED <<hm_family, failed_unifications, hm_pc>>
    /\ UNCHANGED latVars
    /\ UNCHANGED linkVars
    /\ UNCHANGED flatVars
    /\ UNCHANGED mgVars
    /\ UNCHANGED rtVars

\* TypeSubstitutor::unify_must_succeed
UnifyMustSucceed ==
    /\ hm_pc = "running"
    /\ Len(failed_unifications) < FailedBound(hm_family)
    /\ \E a \in HMTypes(hm_family, Len(substitution_map)),
          b \in HMTypes(hm_family, Len(substitution_map)) :
          \E unified \in {unify(substitution_map, a, b, {})} :
             /\ substitution_map' = unified.map
             /\ hm_last' = HmCall("unify_must_succeed", a, b, ResultName(unified.result))
             /\ HmEnded(IF unified.status = "ok" /\ ~unified.result
                        THEN "unify_must_succeed failed" ELSE unified.status)
    /\ UNCHANGED <<hm_family, failed_unifications>>
    /\ UNCHANGED latVars
    /\ UNCHANGED linkVars
    /\ UNCHANGED flatVars
    /\ UNCHANGED mgVars
    /\ UNCHANGED rtVars

\* TypeSubstitutor::unify_report_error
UnifyReportError ==
    /\ hm_pc = "running"
    /\ Len(failed_unifications) < FailedBound(hm_family)
    /\ \E found \in HMTypes(hm_family, Len(substitution_map)),
          expected \in HMTypes(hm_family, Len(substitution_map)),
          reported \in Reports :
          \E unified \in {unify(substitution_map, found, expected, {})} :
             /\ substitution_map' = unified.map
             /\ failed_unifications' =
                   IF unified.status = "ok" /\ ~unified.result
                   THEN Append(failed_unifications,
                               FailedUnification(found, expected, reported.span,
                                                 report(reported.reporter)))
                   ELSE failed_unifications
             /\ hm_last' = [HmCall("unify_report_error", found, expected,
                                   ResultName(unified.result))
                               EXCEPT !.span = reported.span, !.reporter = reported.reporter]
             /\ HmEnded(unified.status)
    /\ UNCHANGED hm_family
    /\ UNCHANGED latVars
    /\ UNCHANGED linkVars
    /\ UNCHANGED flatVars
    /\ UNCHANGED mgVars
    /\ UNCHANGED rtVars

\* TypeSubstitutor::extract_errors
ExtractErrors ==
    /\ hm_pc = "running"
    /\ failed_unifications # <<>>
    /\ failed_unifications' = <<>>
    /\ hm_last' = [HmCall("extract_errors", NoType, NoType, "none")
                      EXCEPT !.returned = failed_unifications]
    /\ UNCHANGED <<hm_family, substitution_map, hm_pc>>
    /\ UNCHANGED latVars
    /\ UNCHANGED linkVars
    /\ UNCHANGED flatVars
    /\ UNCHANGED mgVars
    /\ UNCHANGED rtVars

\* HindleyMilner::fully_substitute on a type of the caller: hm_last holds the
\* type before (a) and after (b) the call.
FullySubstitute ==
    /\ hm_pc = "running"
    /\ \E typ \in HMTypes(hm_family, Len(substitution_map)) :
          \E substituted \in {fully_substitute(hm_family, substitution_map, typ, {})} :
             /\ hm_last' = HmCall("fully_substitute", typ, substituted.typ,
                                  ResultName(substituted.result))
             /\ HmEnded(substituted.status)
    /\ UNCHANGED <<hm_family, substitution_map, failed_unifications>>
    /\ UNCHANGED latVars
    /\ UNCHANGED linkVars
    /\ UNCHANGED flatVars
    /\ UNCHANGED mgVars
    /\ UNCHANGED rtVars

\* TypeSubstitutor::new
HmInit ==
    /\ LatIdle
    /\ LinkIdle
    /\ FlatIdle
    /\ MgIdle
    /\ RtIdle
    /\ hm_family \in {"AbstractType", "DomainType", "ConcreteType"}
    /\ substitution_map = <<>>
    /\ failed_unifications = <<>>
    /\ hm_last = HmCall("new", NoType, NoType, "none")
    /\ hm_pc = "running"

\* A drop without the assertion.
drop_Unchecked(failed) == "dropped"

\* Drop::drop: how the drop ends.
drop(failed) ==
    IF failed = <<>> THEN "dropped" ELSE "Errors were not extracted before dropping!"

\* impl Drop for TypeSubstitutor
Drop ==
    /\ hm_pc = "running"
    /\ hm_pc' = drop(failed_unifications)
    /\ hm_last' = HmCall("drop", NoType, NoType, "none")
    /\ UNCHANGED <<hm_family, substitution_map, failed_unifications>>
    /\ UNCHANGED latVars
    /\ UNCHANGED linkVars
    /\ UNCHANGED flatVars
    /\ UNCHANGED mgVars
    /\ UNCHANGED rtVars

HmNext ==
    Alloc \/ UnifyMustSucceed \/ UnifyReportError \/ ExtractErrors \/ FullySubstitute \/ Drop

SpecTyping == HmInit /\ [][HmNext]_vars

(***************************************************************************)
(* Properties of the substitutor                                           *)
(***************************************************************************)
UnifyCalls == {"unify_must_succeed", "unify_report_error"}

\* The step is a unification of DomainType::Generative with a domain.
GenerativeUnified ==
    /\ hm_family = "DomainType"
    /\ hm_last'.op \in UnifyCalls
    /\ GENERATIVE \in {hm_last'.a, hm_last'.b}

\* No substitution cell holds DomainType::Generative.
NoGenerativeCell ==
    \A v \in DOMAIN substitution_map : substitution_map[v] # <<GENERATIVE>>

\* C18 as claimed: unifying DomainType::Generative with any domain through
\* the domain substitutor succeeds and binds no variable, and Generative is
\* never stored in a substitution cell.
C18_GenerativeUnifies ==
    /\ [][GenerativeUnified =>
            /\ hm_pc' = "running" /\ hm_last'.result = "true"
            /\ substitution_map' = substitution_map]_vars
    /\ []NoGenerativeCell

\* C18 amended: unifying DomainType::Generative with any domain through the
\* domain substitutor panics in get_hm_info, binds no variable, and Generative
\* is never stored in a substitution cell.
C18_GenerativeUnreachable ==
    /\ [][GenerativeUnified =>
            /\ hm_pc' = "unreachable"
            /\ substitution_map' = substitution_map]_vars
    /\ []NoGenerativeCell

C18_Witness ==
    /\ hm_family = "DomainType"
    /\ hm_last.op \in UnifyCalls
    /\ hm_last.a.kind = "DomainVariable" /\ hm_last.b = GENERATIVE
    /\ substitution_map[hm_last.a.id] = <<>>
    /\ hm_pc = "unreachable"

\* The variables a type names.
RECURSIVE VariablesOf(_)
VariablesOf(typ) ==
    IF typ.kind \in {"Unknown", "DomainVariable"} THEN {typ.id}
    ELSE UNION {VariablesOf(typ.args[k]) : k \in DOMAIN typ.args}

\* The variables reachable from a set of variables through the substitution.
RECURSIVE ReachableVariables(_, _)
ReachableVariables(map, seen) ==
    LET further == seen \cup UNION {VariablesOf(map[v][1]) : v \in {v \in seen : map[v] # <<>>}}
    IN IF further = seen THEN seen ELSE ReachableVariables(map, further)

\* C19: fully_substitute of an AbstractType or ConcreteType returns, it
\* returns true exactly when every variable reachable from the type through
\* the substitution is bound, the type then names no variable, and a second
\* call on it returns true and changes nothing.
C19_FullySubstitute ==
    (hm_last.op = "fully_substitute" /\ hm_family \in {"AbstractType", "ConcreteType"}) =>
        /\ hm_pc = "running"
        /\ hm_last.result = "true" <=>
              \A v \in ReachableVariables(substitution_map, VariablesOf(hm_last.a)) :
                  substitution_map[v] # <<>>
        /\ hm_last.result = "true" =>
              /\ VariablesOf(hm_last.b) = {}
              /\ fully_substitute(hm_family, substitution_map, hm_last.b, {})
                    = SubstituteResult(hm_last.b, "ok", TRUE)

\* C20: a substitution cell that has been set keeps its value in every call
\* on the substitutor, and unify never sets a cell that is set: the assertion
\* on typ_cell.set never fails.
C20_CellsSetOnce ==
    /\ [][\A v \in DOMAIN substitution_map :
             substitution_map[v] # <<>> => substitution_map'[v] = substitution_map[v]]_vars
    /\ [](hm_pc # "typ_cell.set failed")

C20_Witness ==
    /\ hm_last.op = "unify_report_error" /\ hm_last.result = "false"
    /\ failed_unifications # <<>>
    /\ hm_last.a.kind = "Array" /\ hm_last.b.kind = "Array"
    /\ hm_last.a.args[1].kind = "Unknown"
    /\ substitution_map[hm_last.a.args[1].id] = <<hm_last.b.args[1]>>

\* The record unify_report_error is to push for the call that hm_last' names.
ReportedFailure ==
    [found |-> hm_last'.a, expected |-> hm_last'.b, span |-> hm_last'.span,
     context |-> hm_last'.reporter.context,
     infos |-> IF hm_last'.reporter.kind = "str" THEN <<>> ELSE hm_last'.reporter.infos]

\* C21: a unify_report_error that fails appends one FailedUnification with the
\* found, expected, span and context it was given, after the records already
\* held, and one that succeeds appends nothing; extract_errors returns the
\* records held and leaves none; unify_must_succeed appends nothing and ends
\* the process on a mismatch.
C21_FailedUnifications ==
    /\ [][(hm_last'.op = "unify_report_error" /\ hm_pc' = "running") =>
             failed_unifications' =
                IF hm_last'.result = "false"
                THEN Append(failed_unifications, ReportedFailure)
                ELSE failed_unifications]_vars
    /\ [][hm_last'.op = "extract_errors" =>
             /\ hm_last'.returned = failed_unifications
             /\ failed_unifications' = <<>>]_vars
    /\ [][hm_last'.op = "unify_must_succeed" =>
             /\ failed_unifications' = failed_unifications
             /\ hm_last'.result = "false" => hm_pc' # "running"]_vars

C21_Witness ==
    /\ hm_last.op = "unify_report_error" /\ hm_last.result = "false"
    /\ Len(failed_unifications) = 2
    /\ failed_unifications[1].span # failed_unifications[2].span
    /\ failed_unifications[1].found # failed_unifications[2].found
    /\ failed_unifications[2].found = hm_last.a
    /\ failed_unifications[2].span = hm_last.span

\* No variable is reachable from the type its cell holds.
Acyclic(map) ==
    \A v \in DOMAIN map :
        map[v] # <<>> => v \notin ReachableVariables(map, VariablesOf(map[v][1]))

\* C26: no sequence of calls on a substitutor makes the substitution cyclic,
\* and no unify or fully_substitute fails to terminate.
C26_NoCyclicSubstitution ==
    /\ Acyclic(substitution_map)
    /\ hm_pc # "stack overflow"

\* C27: dropping a substitutor trips the assertion of Drop exactly when
\* failed_unifications holds a record at that moment, and the list holds a
\* record only after a unify_report_error that failed.
C27_DropAssertion ==
    /\ [][hm_last'.op = "drop" =>
             (hm_pc' = "dropped" <=> failed_unifications = <<>>)]_vars
    /\ [][(failed_unifications = <<>> /\ failed_unifications' # <<>>) =>
             (hm_last'.op = "unify_report_error" /\ hm_last'.result = "false")]_vars

C27_Witness ==
    /\ hm_last.op = "drop" /\ hm_pc = "dropped"
    /\ \E v \in DOMAIN substitution_map : substitution_map[v] # <<>>

(***************************************************************************)
(* Name mangling: codegen_fallback.rs                                      *)
(***************************************************************************)
MaxStrLen == 3       \* chars of a string given to mangle

\* The chars the strings are made of, one or more of each class that
\* char::is_whitespace and char::is_alphanumeric tell apart. Both follow the
\* Unicode properties: U+00E9 (e acute) is Alphabetic, U+0663 (Arabic-Indic
\* digit three) is Numeric, U+00A0 (no-break space) is White_Space.
Chars == {"a", "Z", "7", "_", " ", ":", "-", "U+00E9", "U+0663", "U+00A0"}

\* char::is_whitespace
is_whitespace(c) == c \in {" ", "U+00A0"}

\* char::is_alphanumeric
is_alphanumeric(c) == c \in {"a", "Z", "7", "U+00E9", "U+0663"}

\* The chars of [A-Za-z0-9_].
IsTargetSafe(c) == c \in {"a", "Z", "7", "_"}

\* mangle with a colon in the place of the underscore.
mangle_char_Colon(c) ==
    IF is_whitespace(c) \/ c = ":" THEN <<>>
    ELSE IF is_alphanumeric(c) THEN <<c>> ELSE <<":">>

\* mangle, the body of the loop: what one char adds to the result.
mangle_char(c) ==
    IF is_whitespace(c) \/ c = ":" THEN <<>>
    ELSE IF is_alphanumeric(c) THEN <<c>> ELSE <<"_">>

RECURSIVE mangle(_)
mangle(str) ==
    IF str = <<>> THEN <<>> ELSE mangle_char(Head(str)) \o mangle(Tail(str))

RECURSIVE StringsOfLen(_)
StringsOfLen(n) ==
    IF n = 0 THEN {<<>>}
    ELSE {Append(str, c) : str \in StringsOfLen(n - 1), c \in Chars}

Strings == UNION {StringsOfLen(n) : n \in 0..MaxStrLen}

\* mangle(&str)
Mangle ==
    /\ mangle_pc = "called"
    /\ mangle_result' = mangle(mangle_str)
    /\ mangle_pc' = "returned"
    /\ UNCHANGED mangle_str
    /\ UNCHANGED latVars
    /\ UNCHANGED linkVars
    /\ UNCHANGED flatVars
    /\ UNCHANGED hmVars
    /\ UNCHANGED rtVars

\* mangle of the String a call of mangle returned.
MangleAgain ==
    /\ mangle_pc = "returned"
    /\ mangle_str' = mangle_result
    /\ mangle_result' = mangle(mangle_result)
    /\ mangle_pc' = "mangled again"
    /\ UNCHANGED latVars
    /\ UNCHANGED linkVars
    /\ UNCHANGED flatVars
    /\ UNCHANGED hmVars
    /\ UNCHANGED rtVars

MgInit ==
    /\ LatIdle
    /\ LinkIdle
    /\ FlatIdle
    /\ HmIdle
    /\ RtIdle
    /\ mangle_str \in Strings
    /\ mangle_result = <<>>
    /\ mangle_pc = "called"

MgNext == Mangle \/ MangleAgain

SpecMangle == MgInit /\ [][MgNext]_vars

\* C22: mangle is idempotent: mangle of what mangle returned is the same string.
C22_MangleIdempotent ==
    /\ mangle_pc = "returned" => mangle(mangle_result) = mangle_result
    /\ mangle_pc = "mangled again" => mangle_result = mangle_str

C22_Witness ==
    /\ mangle_pc = "mangled again"
    /\ mangle_result = <<"a", "_", "7">>

\* C23: every char of what mangle returns is in [A-Za-z0-9_]; whitespace and
\* ':' are dropped and every other char that is not alphanumeric becomes '_'.
C23_MangleTargetSafe ==
    mangle_pc = "returned" =>
        /\ \A k \in DOMAIN mangle_result : IsTargetSafe(mangle_result[k])
        /\ mangle_result =
              [k \in 1..Len(SelectSeq(mangle_str, LAMBDA c : ~is_whitespace(c) /\ c # ":")) |->
                  IF is_alphanumeric(SelectSeq(mangle_str,
                                               LAMBDA c : ~is_whitespace(c) /\ c # ":")[k])
                  THEN SelectSeq(mangle_str, LAMBDA c : ~is_whitespace(c) /\ c # ":")[k]
                  ELSE "_"]

(***************************************************************************)
(* Unused variables                                                        *)
(***************************************************************************)
IsWrite(id) == instructions[id].kind \in {"Write", "Connection"}

IsDeclaredHere(id) ==
    \/ instructions[id].kind = "Declaration" /\ instructions[id].is_declared_in_this_module
    \/ instructions[id].kind = "WireDeclaration" /\ ~instructions[id].is_remote_declaration

\* The if statements whose then or else block holds the instruction.
IfsAround(id) ==
    {stm \in DOMAIN instructions :
        /\ instructions[stm].kind = "IfStatement"
        /\ instructions[stm].then_start <= id /\ id < instructions[stm].else_end}

\* What an instruction needs to be produced: the sources of the writes to it,
\* the array indices of their targets and the conditions of the ifs around
\* them, its operands, its array sizes, the bounds of the loop it is the
\* variable of, the sub-module it is an output of, the inputs of a sub-module.
RequiredBy(id) ==
    UNION {{instructions[w].from} \cup Range(instructions[w].to.path)
           \cup {instructions[stm].condition : stm \in IfsAround(w)} :
              w \in {w \in DOMAIN instructions : IsWrite(w) /\ instructions[w].to.root = id}}
    \cup (IF instructions[id].kind = "Wire" THEN Range(instructions[id].source.operands)
          ELSE IF instructions[id].kind \in {"Declaration", "WireDeclaration"}
          THEN Range(instructions[id].typ.sizes)
          ELSE IF instructions[id].kind = "SubModule"
          THEN interface_inputs(instructions[id].interface_ports)
          ELSE {})
    \cup UNION {{instructions[stm].start, instructions[stm].end} :
                  stm \in {stm \in DOMAIN instructions :
                     instructions[stm].kind = "ForStatement"
                     /\ instructions[stm].loop_var_decl = id}}
    \cup {sm \in DOMAIN instructions :
             instructions[sm].kind = "SubModule"
             /\ id \in interface_outputs(instructions[sm].interface_ports)}

RECURSIVE RequiredFor(_)
RequiredFor(ids) ==
    LET further == ids \cup UNION {RequiredBy(id) : id \in ids}
    IN IF further = ids THEN ids ELSE RequiredFor(further)

UnusedWarning(id) ==
    \E e \in DOMAIN fl_errors :
        /\ fl_errors[e].level = "warning" /\ fl_errors[e].span = id
        /\ fl_errors[e].message =
              "Unused Variable: This variable does not affect the output ports of this module"

SubModulePorts ==
    UNION {Range(instructions[sm].interface_ports.ports) :
              sm \in {sm \in DOMAIN instructions : instructions[sm].kind = "SubModule"}}

\* C24: the 'Unused Variable' warning is on exactly the declarations of this
\* module that no output port requires, and on no output port and no port of a
\* sub-module.
C24_UnusedVariables ==
    fl_pc = "flattened" =>
        /\ \A id \in DOMAIN instructions :
              UnusedWarning(id) <=>
                 /\ IsDeclaredHere(id)
                 /\ id \notin RequiredFor(interface_outputs(fl_interface_ports[1]))
        /\ \A id \in interface_outputs(fl_interface_ports[1]) \cup SubModulePorts :
              ~UnusedWarning(id)

(***************************************************************************)
(* Symbol references: dev_aid/lsp/tree_walk.rs                             *)
(***************************************************************************)
NumRtModules == 2    \* modules of the linker the LocationInfos point into

\* The instructions of each module: two declarations, a sub-module instance
\* and a temporary wire. The ports of a module name declarations of it.
RtDeclarations == {1, 2}
RtSubModule == 3
RtTemporary == 4

\* Module::ports (declaration_instruction of each port) and the module the
\* sub-module instance instantiates.
RtModules ==
    {[ports |-> ports, module_uuid |-> uuid] :
        ports \in {<<>>, <<1>>, <<2, 1>>}, uuid \in 1..NumRtModules}

RtLinkers == [1..NumRtModules -> RtModules]

\* LocationInfo: the variant and the handles it carries; sm names the
\* SubModuleInstance of a Port by the module it is in.
LocationInfo(kind, md_id, flat_id, name_elem, port_id, domain_id) ==
    [kind |-> kind, md_id |-> md_id, flat_id |-> flat_id, name_elem |-> name_elem,
     port_id |-> port_id, domain_id |-> domain_id]

NoNameElem == <<"None", 0>>

\* The LocationInfos the tree walk can give for the modules of a linker. The
\* md_id of a Port is sm.module_uuid, the module the port is defined on.
LocationInfos(linker) ==
    {LocationInfo(kind, md_id, flat_id, NoNameElem, 0, 0) :
        kind \in {"NamedLocal"}, md_id \in DOMAIN linker, flat_id \in RtDeclarations}
    \cup {LocationInfo("NamedSubmodule", md_id, RtSubModule, NoNameElem, 0, 0) :
            md_id \in DOMAIN linker}
    \cup {LocationInfo("Temporary", md_id, RtTemporary, NoNameElem, 0, 0) :
            md_id \in DOMAIN linker}
    \cup {LocationInfo("Type", 0, 0, NoNameElem, 0, 0)}
    \cup {LocationInfo("Global", 0, 0, <<kind, id>>, 0, 0) :
            kind \in {"Module", "Type"}, id \in 1..NumRtModules}
    \cup {info \in {LocationInfo("Port", linker[md_id].module_uuid, 0, NoNameElem, port_id, 0) :
                        md_id \in DOMAIN linker, port_id \in 1..2} :
              info.port_id \in DOMAIN linker[info.md_id].ports}
    \cup {LocationInfo("Interface", md_id, 0, NoNameElem, 0, 1) : md_id \in DOMAIN linker}

NamesSymbol(info) ==
    info.kind \in {"NamedLocal", "NamedSubmodule", "Global", "Port", "Interface"}

\* RefersTo: four Options.
RefersTo(local, global, port, interface) ==
    [local |-> local, global |-> global, port |-> port, interface |-> interface]

\* From<LocationInfo> with the local of a Port left unset.
from_PortOnly(linker, info) ==
    IF info.kind = "NamedLocal"
    THEN RefersTo(<<<<info.md_id, info.flat_id>>>>, <<>>,
                  IF \E p \in DOMAIN linker[info.md_id].ports :
                        linker[info.md_id].ports[p] = info.flat_id
                  THEN <<<<info.md_id,
                           CHOOSE p \in DOMAIN linker[info.md_id].ports :
                              /\ linker[info.md_id].ports[p] = info.flat_id
                              /\ \A q \in 1..(p - 1) :
                                    linker[info.md_id].ports[q] # info.flat_id>>>>
                  ELSE <<>>, <<>>)
    ELSE IF info.kind = "NamedSubmodule"
    THEN RefersTo(<<<<info.md_id, info.flat_id>>>>, <<>>, <<>>, <<>>)
    ELSE IF info.kind = "Global"
    THEN RefersTo(<<>>, <<info.name_elem>>, <<>>, <<>>)
    ELSE IF info.kind = "Port"
    THEN RefersTo(<<>>, <<>>, <<<<info.md_id, info.port_id>>>>, <<>>)
    ELSE IF info.kind = "Interface"
    THEN RefersTo(<<>>, <<>>, <<>>, <<<<info.md_id, info.domain_id>>>>)
    ELSE RefersTo(<<>>, <<>>, <<>>, <<>>)

\* impl From<LocationInfo> for RefersTo
from(linker, info) ==
    IF info.kind = "NamedLocal"
    THEN RefersTo(<<<<info.md_id, info.flat_id>>>>, <<>>,
                  IF \E p \in DOMAIN linker[info.md_id].ports :
                        linker[info.md_id].ports[p] = info.flat_id
                  THEN <<<<info.md_id,
                           CHOOSE p \in DOMAIN linker[info.md_id].ports :
                              /\ linker[info.md_id].ports[p] = info.flat_id
                              /\ \A q \in 1..(p - 1) :
                                    linker[info.md_id].ports[q] # info.flat_id>>>>
                  ELSE <<>>, <<>>)
    ELSE IF info.kind = "NamedSubmodule"
    THEN RefersTo(<<<<info.md_id, info.flat_id>>>>, <<>>, <<>>, <<>>)
    ELSE IF info.kind = "Global"
    THEN RefersTo(<<>>, <<info.name_elem>>, <<>>, <<>>)
    ELSE IF info.kind = "Port"
    THEN RefersTo(<<<<info.md_id, linker[info.md_id].ports[info.port_id]>>>>, <<>>,
                  <<<<info.md_id, info.port_id>>>>, <<>>)
    ELSE IF info.kind = "Interface"
    THEN RefersTo(<<>>, <<>>, <<>>, <<<<info.md_id, info.domain_id>>>>)
    ELSE RefersTo(<<>>, <<>>, <<>>, <<>>)

\* RefersTo::refers_to_same_as
refers_to_same_as(self, info) ==
    IF info.kind \in {"NamedLocal", "NamedSubmodule", "Temporary"}
    THEN self.local = <<<<info.md_id, info.flat_id>>>>
    ELSE IF info.kind = "Type" THEN FALSE
    ELSE IF info.kind = "Global" THEN self.global = <<info.name_elem>>
    ELSE IF info.kind = "Port" THEN self.port = <<<<info.md_id, info.port_id>>>>
    ELSE self.interface = <<<<info.md_id, info.domain_id>>>>

\* RefersTo::from(info)
From ==
    /\ rt_info # <<>> /\ rt_refers = <<>>
    /\ rt_refers' = <<from(rt_linker, rt_info[1])>>
    /\ UNCHANGED <<rt_linker, rt_info, rt_other, rt_result>>
    /\ UNCHANGED latVars
    /\ UNCHANGED linkVars
    /\ UNCHANGED flatVars
    /\ UNCHANGED hmVars
    /\ UNCHANGED mgVars

\* refers.refers_to_same_as(info)
RefersToSameAs ==
    /\ rt_refers # <<>> /\ rt_result = <<>>
    /\ \E info \in LocationInfos(rt_linker) :
          /\ rt_other' = <<info>>
          /\ rt_result' = <<refers_to_same_as(rt_refers[1], info)>>
    /\ UNCHANGED <<rt_linker, rt_info, rt_refers>>
    /\ UNCHANGED latVars
    /\ UNCHANGED linkVars
    /\ UNCHANGED flatVars
    /\ UNCHANGED hmVars
    /\ UNCHANGED mgVars

RtInit ==
    /\ LatIdle
    /\ LinkIdle
    /\ FlatIdle
    /\ HmIdle
    /\ MgIdle
    /\ rt_linker \in RtLinkers
    /\ rt_info \in {<<info>> : info \in LocationInfos(rt_linker)}
    /\ rt_refers = <<>>
    /\ rt_other = <<>>
    /\ rt_result = <<>>

RtNext == From \/ RefersToSameAs

SpecRefersTo == RtInit /\ [][RtNext]_vars

\* C25: for LocationInfos a and b that name a symbol, RefersTo::from(a)
\* refers to the same as a, and it refers to the same as b exactly when
\* RefersTo::from(b) refers to the same as a; the declaration of a port and a
\* Port reference to it refer to each other, and locals with the same FlatID
\* in different modules do not.
C25_RefersToSymmetric ==
    (rt_result # <<>> /\ NamesSymbol(rt_info[1]) /\ NamesSymbol(rt_other[1])) =>
        /\ rt_other = rt_info => rt_result[1]
        /\ rt_result[1] = refers_to_same_as(from(rt_linker, rt_other[1]), rt_info[1])
        /\ (/\ rt_info[1].kind = "NamedLocal" /\ rt_other[1].kind = "Port"
            /\ rt_info[1].md_id = rt_other[1].md_id
            /\ rt_linker[rt_info[1].md_id].ports[rt_other[1].port_id] = rt_info[1].flat_id)
           => rt_result[1]
        /\ (/\ rt_info[1].kind = "NamedLocal" /\ rt_other[1].kind = "NamedLocal"
            /\ rt_info[1].md_id # rt_other[1].md_id)
           => ~rt_result[1]

C25_Witness ==
    /\ rt_result = <<TRUE>>
    /\ rt_info # <<>> /\ rt_info[1].kind = "Port"
    /\ rt_other[1].kind = "NamedLocal"

(***************************************************************************)
(* The assertion of typing::typecheck                                      *)
(***************************************************************************)
\* C28: typecheck never fails its assertion: whenever two types are unequal
\* the names printed for them differ, so no module ends the flattening in
\* the panic of `assert!(expected_name != found_name)`.
C28_TypecheckAssertion ==
    fl_pc # "assertion failed: expected_name != found_name"

====
